---- MODULE Spec2Model ----
(***************************************************************************)
(* Oxide Flow: a model of the state subsystem (state backend, state        *)
(* manager, progress tracker) and of the pipeline executor.                *)
(*                                                                         *)
(* The state subsystem is modelled for one pipeline id shared by the       *)
(* workers.  Time is a discrete clock `now`; one tick is an abstract       *)
(* number of milliseconds.                                                 *)
(***************************************************************************)
EXTENDS Integers, Sequences, FiniteSets, TLC

(***************************************************************************)
(* Bounds of the model.                                                    *)
(***************************************************************************)
MaxTime == 2
MaxTimeout == 1
MaxPending == 1
MaxCalls == 2
MaxHeartbeats == 2
MaxSteps == 3
MaxRetry == 1
MaxTimeoutSecs == 1
MaxSaves == 3
MaxCacheOps == 3
MaxBackups == 3

(***************************************************************************)
(* Workers.  "A" and "B" are two state managers with distinct worker ids   *)
(* (manager.rs test_state_locking: worker_1, worker_2).  On the memory     *)
(* backend they share one MemoryBackend; on the file backend each has its  *)
(* own FileBackend (with its own cache) over the same base_path.  The      *)
(* heartbeat task of "A" shares A's backend (manager.rs:277-280).          *)
(***************************************************************************)
Workers == {"A", "B"}
Backends == {"file", "memory"}

VARIABLES
    backend,        \* which StateBackend realization the managers use
    now,            \* Utc::now(), in ticks
    states,         \* states/<pipeline_id>.<ext>  /  MemoryBackend.states[p]
    cache,          \* FileBackend.cache[p], one per backend instance
    lock,           \* locks/<pipeline_id>.lock    /  MemoryBackend.locks[p]
    flock,          \* holder of the OS file lock on the lock file's inode
    fdOnPath,       \* whether the worker's open lock-file handle is the file at the path
    local,          \* each worker's position and locals
    holds,          \* the LockInfo a worker was granted and has not given up
    pendingRelease, \* release tasks spawned by Drop for StateManagerLock, not yet run
    hbTask,         \* the heartbeat task of worker "A"
    hbLoaded,       \* the state the heartbeat task loaded
    calls,          \* calls writing the state started by each worker (bounded)
    hbCount,        \* heartbeats started (bounded)
    doneOps,        \* update_state_locked calls that returned Ok since initialization
    doneHb,         \* update_heartbeat calls that returned Ok since initialization
    lastWrite,      \* the last save_state: the state it replaced and the one it wrote
    steps,          \* Pipeline.pipeline, the declared steps (executor)
    pipePc,         \* position of the executor: unloaded, loaded, running, returned
    index,          \* 0-based index of the step being executed (executor)
    attempt,        \* attempt number within the retry loop (executor)
    attemptTime,    \* seconds the current attempt has been running (executor)
    current_data,   \* the envelope threaded through the steps (executor)
    step_results,   \* PipelineResult.step_results under construction (executor)
    steps_executed, \* steps that succeeded so far (executor)
    steps_failed,   \* steps that failed terminally so far (executor)
    attemptLog,     \* every execute_once invocation: step, attempt, input, outcome
    pipeResult,     \* the returned PipelineResult (executor)
    inode,          \* content of each file of the states directory, by inode
    statePath,      \* inode at states/<pipeline_id>.json, 0 if there is no such file
    tmpPath,        \* inode at states/<pipeline_id>.json.tmp, 0 if there is no such file
    writer,         \* each writer's position in FileBackend::save_state, its handle and data
    saves,          \* save_state calls started (bounded)
    lastRead,       \* what the last read of the state file observed
    task,           \* tasks sharing the FileBackend of worker "A": position and locals
    latest,         \* the state left by the latest save_state or delete_state that returned
    cacheOps,       \* save_state and delete_state calls started by the tasks (bounded)
    backups,        \* backups/<pipeline_id>/backup_*: the bytes of each, oldest first
    repairResult,   \* what the last repair_state found and returned
    max_retries,    \* StateManagerConfig.max_retries of the manager saving
    retries,        \* retry_operation: failures counted so far
    retryPc,        \* retry_operation: idle, operation, sleeping, returned
    operationLog,   \* retry_operation: the outcome of every call of the operation
    sleeps,         \* retry_operation: the delay_ms of every sleep, in order
    saveResult,     \* what save_state returned
    obsPc,          \* ObservableStateManager call: idle, write, notify, returned
    obsOp,          \* the call in progress: save_state_observed or add_error_observed
    obsNext,        \* position of the loop over the observers
    obsWrite,       \* the backend write of the call: pending, Ok, Err
    obsCalls,       \* observed calls started (bounded)
    callbacks,      \* every observer callback invoked, in order
    obsResult,      \* what the observed call returned
    env_vars,       \* ConfigResolver.env_vars, the cache of environment variables
    environ,        \* the process environment read by env::var
    resPc,          \* resolve_env_vars: idle, returned
    text,           \* the string resolve_env_vars was called with
    resolved,       \* what resolve_env_vars returned
    step_outputs,   \* the document recorded for each stage (step_outputs of both resolvers)
    refPc,          \* resolution of one step reference: idle, returned
    refStage,       \* the stage_id of the reference
    refPath,        \* the segments of the reference
    resolverResult, \* what ConfigResolver returned for the reference
    contextResult,  \* what PipelineContext returned for the reference
    subPc,          \* resolve_string_references: idle, returned
    subText,        \* the string resolve_string_references was called with
    subResolver,    \* what ConfigResolver::resolve_string_references returned
    subContext,     \* what PipelineContext::resolve_step_references returned
    oxiPc,          \* Oxi::process of one stage: new, ready, returned
    limits,         \* the stage's processing_limits()
    oxiInput,       \* the input envelope given to process
    processed,      \* whether process_data was invoked
    oxiResult,      \* what process returned
    tstate,         \* the persisted PipelineState the tracker works on
    nextRunId,      \* run ids handed out so far (Uuid::new_v4)
    trackerOps,     \* tracker operations made (bounded)
    lastCall,       \* the last tracker call: operation, arguments, state before it
    canResume,      \* what the last can_resume returned
    resumed,        \* what the last resume returned: no tracker, or its run_id
    fileLocks,      \* FileBackend: locks/<pipeline_id>.lock, in the run on the file backend
    memoryLocks,    \* MemoryBackend.locks[p], in the run on the memory backend
    pairNow,        \* Utc::now() of both runs, in ticks
    pairOps,        \* calls made on both backends
    outcomes,       \* the last call and what each backend returned
    batchPc,        \* where the Batch stage is: new, ready, done
    batchItems,     \* the JSON array given to the Batch stage
    batchConfig,    \* batch_size, strategy and max_memory_mb of the step
    batches,        \* the batches the stage returned
    onceStep,       \* the PipelineStep executed: retry_attempts, whether its config resolves, whether its name is known
    oncePc,         \* where execute_with_retries is: new, declared, attempt, returned
    onceAttempt,    \* attempt of the loop in execute_with_retries
    instants,       \* Instant::now(), start_time and the start of the current attempt
    onceCalls,      \* how often execute_once called to_oxi_config, the name match and process
    onceResult,     \* the StepResult returned
    lru,            \* FileBackend.cache: CachedState by pipeline id
    files,          \* pipeline ids that have a state file
    lruNow,         \* Utc::now() as the cache reads it, in ticks
    lruOps,         \* load_state and save_state calls made
    statesDir,      \* the entries of the states directory, by what each file holds
    report,         \* the IntegrityReport verify_integrity returned
    persisted,      \* the persisted state of the pipeline repair_state is called on
    repaired,       \* the RepairResult repair_state returned
    stateFile,      \* the state file of the pipeline: the state it holds (0: no file) and whether its modification time is before the cleanup cutoff
    cacheEntry,     \* the state the backend caches for the pipeline (0: no entry)
    backupFiles,    \* the states held by the backup files of the pipeline
    lastChange,     \* the last operation that changed the state file
    lastLoad,       \* the result of the last load_state (0: PipelineNotFound), and the last change and the file content it followed
    binPc,          \* where the Batch stage is with a binary input: "idle", "loop" or "done"
    binInput,       \* the length of the binary input and the configuration of the call
    current_pos,    \* current_pos of create_binary_batches
    chunks          \* the chunks pushed so far, each as the byte range it copies

stateVars == <<backend, now, states, cache, lock, flock, fdOnPath, local, holds,
               pendingRelease, hbTask, hbLoaded, calls, hbCount, doneOps, doneHb,
               lastWrite>>
pipeVars == <<steps, pipePc, index, attempt, attemptTime, current_data, step_results, steps_executed,
              steps_failed, attemptLog, pipeResult>>
fileVars == <<inode, statePath, tmpPath, writer, saves, lastRead>>
cacheVars == <<task, latest, cacheOps>>
repairVars == <<backups, repairResult>>
retryVars == <<max_retries, retries, retryPc, operationLog, sleeps, saveResult>>
observerVars == <<obsPc, obsOp, obsNext, obsWrite, obsCalls, callbacks, obsResult>>
resolverVars == <<env_vars, environ, resPc, text, resolved>>
\* State added for the stages, the tracker and the step references.
refVars == <<step_outputs, refPc, refStage, refPath, resolverResult, contextResult>>
subVars == <<subPc, subText, subResolver, subContext>>
oxiVars == <<oxiPc, limits, oxiInput, processed, oxiResult>>
trackerVars == <<tstate, nextRunId, trackerOps, lastCall, canResume, resumed>>
pairVars == <<fileLocks, memoryLocks, pairNow, pairOps, outcomes>>
batchVars == <<batchPc, batchItems, batchConfig, batches>>
onceVars == <<onceStep, oncePc, onceAttempt, instants, onceCalls, onceResult>>
lruVars == <<lru, files, lruNow, lruOps>>
integrityVars == <<statesDir, report>>
healVars == <<persisted, repaired>>
viewVars == <<stateFile, cacheEntry, backupFiles, lastChange, lastLoad>>
binaryVars == <<binPc, binInput, current_pos, chunks>>
moreVars == <<refVars, subVars, oxiVars, trackerVars, pairVars, batchVars, onceVars, lruVars, integrityVars, healVars, viewVars, binaryVars>>
earlierVarsButResolver ==
    <<stateVars, pipeVars, fileVars, cacheVars, repairVars, retryVars, observerVars>>
earlierVars ==
    <<stateVars, pipeVars, fileVars, cacheVars, repairVars, retryVars, observerVars,
      resolverVars>>
notRefVars == <<earlierVars, subVars, oxiVars, trackerVars, pairVars, batchVars, onceVars, lruVars, integrityVars, healVars, viewVars, binaryVars>>
notSubVars == <<earlierVars, refVars, oxiVars, trackerVars, pairVars, batchVars, onceVars, lruVars, integrityVars, healVars, viewVars, binaryVars>>
notOxiVars == <<earlierVars, refVars, subVars, trackerVars, pairVars, batchVars, onceVars, lruVars, integrityVars, healVars, viewVars, binaryVars>>
notTrackerVars == <<earlierVars, refVars, subVars, oxiVars, pairVars, batchVars, onceVars, lruVars, integrityVars, healVars, viewVars, binaryVars>>
notPairVars == <<earlierVars, refVars, subVars, oxiVars, trackerVars, batchVars, onceVars, lruVars, integrityVars, healVars, viewVars, binaryVars>>
notBatchVars == <<earlierVars, refVars, subVars, oxiVars, trackerVars, pairVars, onceVars, lruVars, integrityVars, healVars, viewVars, binaryVars>>
notOnceVars == <<earlierVars, refVars, subVars, oxiVars, trackerVars, pairVars, batchVars, lruVars, integrityVars, healVars, viewVars, binaryVars>>
notLruVars == <<earlierVars, refVars, subVars, oxiVars, trackerVars, pairVars, batchVars, onceVars, integrityVars, healVars, viewVars, binaryVars>>
notIntegrityVars == <<earlierVars, refVars, subVars, oxiVars, trackerVars, pairVars, batchVars, onceVars, lruVars, healVars, viewVars, binaryVars>>
notHealVars == <<earlierVars, refVars, subVars, oxiVars, trackerVars, pairVars, batchVars, onceVars, lruVars, integrityVars, viewVars, binaryVars>>
notViewVars == <<earlierVars, refVars, subVars, oxiVars, trackerVars, pairVars, batchVars, onceVars, lruVars, integrityVars, healVars, binaryVars>>
notBinaryVars == <<earlierVars, refVars, subVars, oxiVars, trackerVars, pairVars, batchVars, onceVars, lruVars, integrityVars, healVars, viewVars>>
laterVars == <<retryVars, observerVars, resolverVars, moreVars>>
otherVars == <<fileVars, cacheVars, repairVars, laterVars>>
vars == <<stateVars, pipeVars, otherVars>>

(***************************************************************************)
(* Values.                                                                 *)
(***************************************************************************)
\* PipelineState, reduced to the fields the operations below change:
\* version, the tracker's mutations (ops), the unlocked manager mutations
\* (prog, as update_progress) and the heartbeat (hb, as last_heartbeat).
NoState == [exists |-> FALSE, version |-> 0, ops |-> 0, prog |-> 0, hb |-> 0]

\* The lock record or lock file: absent, unparsable content, or a LockInfo.
NoLock == [kind |-> "none", worker_id |-> "", expires_at |-> 0]
InvalidLock == [kind |-> "invalid", worker_id |-> "", expires_at |-> 0]

\* Result<_, StateError> of a call.
Ok == [tag |-> "Ok", worker_id |-> "", timeout_ms |-> 0]
NoResult == [tag |-> "", worker_id |-> "", timeout_ms |-> 0]
PipelineNotFound == [tag |-> "PipelineNotFound", worker_id |-> "", timeout_ms |-> 0]
IoError == [tag |-> "IoError", worker_id |-> "", timeout_ms |-> 0]

Idle == [pc |-> "idle", op |-> "", timeout_ms |-> 0, start_time |-> 0,
         expires_at |-> 0, state |-> NoState, result |-> NoResult]

NoWrite == [written |-> FALSE, old |-> NoState, new |-> NoState]


LockAlreadyHeld(w) == [tag |-> "LockAlreadyHeld", worker_id |-> w, timeout_ms |-> 0]
LockTimeout(t) == [tag |-> "LockTimeout", worker_id |-> "", timeout_ms |-> t]
LockInfo(w, e) == [kind |-> "record", worker_id |-> w, expires_at |-> e]

\* StateManagerConfig.default_lock_timeout_ms, in ticks: the timeout (and so the
\* lifetime) of the lock update_state_locked takes.
default_lock_timeout_ms == MaxTimeout

(***************************************************************************)
(* State backend: the pure part of each method, on the lock record `l`,    *)
(* for caller `w` at time `t`.                                             *)
(***************************************************************************)
\* An is_locked that reports a record whether it has expired or not.
FileIsLocked_KeepExpired(l, t) ==
    IF l.kind = "record" THEN [info |-> l, after |-> l] ELSE [info |-> NoLock, after |-> NoLock]

\* FileBackend::is_locked: a missing file is "unlocked"; an expired record
\* and an unparsable file are removed and reported "unlocked".
FileIsLocked(l, t) ==
    IF l.kind = "none" THEN [info |-> NoLock, after |-> NoLock]
    ELSE IF l.kind = "record" /\ ~(t > l.expires_at) THEN [info |-> l, after |-> l]
    ELSE [info |-> NoLock, after |-> NoLock]

\* MemoryBackend::is_locked.
MemoryIsLocked(l, t) ==
    IF l.kind = "record"
    THEN IF t > l.expires_at THEN [info |-> NoLock, after |-> NoLock]
                             ELSE [info |-> l, after |-> l]
    ELSE [info |-> NoLock, after |-> l]

\* FileBackend::release_lock: no file is a success; a record of another worker
\* is LockAlreadyHeld; otherwise the file is removed, which fails when
\* is_locked has just removed it (expired or unparsable).
FileReleaseLock(l, w, t) ==
    IF l.kind = "none" THEN [result |-> Ok, after |-> NoLock]
    ELSE LET r == FileIsLocked(l, t) IN
         IF r.info.kind = "record" /\ r.info.worker_id # w
         THEN [result |-> LockAlreadyHeld(r.info.worker_id), after |-> r.after]
         ELSE IF r.after.kind = "none" THEN [result |-> IoError, after |-> NoLock]
         ELSE [result |-> Ok, after |-> NoLock]

\* A release_lock that answers Ok and leaves the record where it is.
MemoryReleaseLock_Keeps(l, w, t) == [result |-> Ok, after |-> l]

\* MemoryBackend::release_lock: the owner check does not look at the expiry.
MemoryReleaseLock(l, w, t) ==
    IF l.kind = "record" /\ l.worker_id # w
    THEN [result |-> LockAlreadyHeld(l.worker_id), after |-> l]
    ELSE [result |-> Ok, after |-> NoLock]

IsLockedOf(l, t) == IF backend = "file" THEN FileIsLocked(l, t) ELSE MemoryIsLocked(l, t)
ReleaseLockOf(l, w, t) ==
    IF backend = "file" THEN FileReleaseLock(l, w, t) ELSE MemoryReleaseLock(l, w, t)

\* The lock file at the path changes identity when it is removed: handles
\* opened before refer to the unlinked inode, and so does their OS lock.
SetLock(l) ==
    /\ lock' = l
    /\ IF backend = "file" /\ l.kind = "none" /\ lock.kind # "none"
       THEN flock' = "" /\ fdOnPath' = [w \in Workers |-> FALSE]
       ELSE UNCHANGED <<flock, fdOnPath>>

\* FileBackend::load_state / MemoryBackend::load_state through backend
\* instance i: the file backend answers from its cache first.
LoadStateOf(i) == IF backend = "file" /\ cache[i].exists THEN cache[i] ELSE states
\* load_state stores what it read from the file in the cache.
CacheAfterLoad(i) ==
    IF backend = "file" /\ ~cache[i].exists /\ states.exists
    THEN [cache EXCEPT ![i] = states] ELSE cache

\* FileBackend::save_state / MemoryBackend::save_state of state s through i.
SaveState(i, s) ==
    /\ states' = s
    /\ cache' = IF backend = "file" THEN [cache EXCEPT ![i] = s] ELSE cache
    /\ lastWrite' = [written |-> TRUE, old |-> states, new |-> s]

(***************************************************************************)
(* Mutators.                                                               *)
(***************************************************************************)
\* PipelineState::increment_version
increment_version(s) == [s EXCEPT !.version = @ + 1]
\* PipelineState::update_heartbeat
update_heartbeat(s) == increment_version([s EXCEPT !.hb = @ + 1])
\* The closures of PipelineTracker::start_step, complete_step,
\* create_checkpoint, complete_pipeline and send_heartbeat: none calls
\* increment_version.
tracker_update(s) == [s EXCEPT !.ops = @ + 1]
\* The closure of StateManager::update_progress (also add_error,
\* update_step_state): ends with increment_version.
update_progress(s) == increment_version([s EXCEPT !.prog = @ + 1])
\* PipelineState::new / PipelineTracker::initialize_state: version 1.
NewState == [exists |-> TRUE, version |-> 1, ops |-> 0, prog |-> 0, hb |-> 0]

Mutate(o, s) == IF o = "update_state_locked" THEN tracker_update(s) ELSE update_progress(s)


(***************************************************************************)
(* Values of the state file on disk.                                       *)
(***************************************************************************)
\* The bytes of a file: nothing (a file just created or truncated) or the
\* serialization of the state written by save number n.
NoBytes == [written |-> FALSE, save |-> 0]
Serialized(n) == [written |-> TRUE, save |-> n]

IdleWriter == [pc |-> "idle", fd |-> 0, data |-> NoBytes, result |-> NoResult]

\* What load_state's read of the state file yields: nothing read yet, the
\* file is missing, its bytes parse, or they do not.
NotRead == [tag |-> "", save |-> 0]
ReadNotFound == [tag |-> "PipelineNotFound", save |-> 0]
ReadValid(n) == [tag |-> "Ok", save |-> n]
ReadInvalid == [tag |-> "SerializationError", save |-> 0]

\* RepairResult, with what repair_state found: whether validate_state
\* reported corruption, whether a valid backup made earlier existed, and
\* whether the state file parses once repair_state has returned.
NoRepair ==
    [called |-> FALSE, corruption_detected |-> FALSE, had_valid_backup |-> FALSE,
     success |-> FALSE, backup_created |-> FALSE, manual_intervention_required |-> FALSE,
     restored |-> FALSE, valid_after |-> FALSE]

(***************************************************************************)
(* Tasks that share one FileBackend (the manager's caller and the          *)
(* heartbeat task it spawned hold the same Arc, manager.rs:277-280).       *)
(***************************************************************************)
Tasks == {"t1", "t2"}
IdleTask == [pc |-> "idle", state |-> NoState, result |-> NoResult]

\* The state written by the n-th save_state.
SavedState(n) == [NoState EXCEPT !.exists = TRUE, !.version = n]

(***************************************************************************)
(* Values of the executor.                                                 *)
(***************************************************************************)
\* OxiData is modelled by its provenance: the sequence of the (1-based)
\* positions of the steps whose stages produced it.  Empty is <<>>.
Empty == <<>>
None == [present |-> FALSE, value |-> Empty]
Some(d) == [present |-> TRUE, value |-> d]

\* timeout_seconds = None; Some(t) is t, at least 1.
NoTimeout == 0

\* A declared step: the fields of PipelineStep that the executor reads.
\* These steps declare no timeout.
StepDecls ==
    [continue_on_error : BOOLEAN, retry_attempts : 0..MaxRetry, timeout_seconds : {NoTimeout}]

\* Declared steps with timeout_seconds set.
TimedStepDecls ==
    [continue_on_error : BOOLEAN, retry_attempts : 0..MaxRetry,
     timeout_seconds : 1..MaxTimeoutSecs]

\* The declarations: every sequence of at most MaxSteps declared steps.
Declarations == UNION {[1..n -> StepDecls] : n \in 0..MaxSteps}

\* The declarations of one step with a timeout.
TimedDeclarations == [{1} -> TimedStepDecls]

NoPipelineResult ==
    [returned |-> FALSE, success |-> FALSE, steps_executed |-> 0, steps_failed |-> 0,
     steps_skipped |-> 0, step_results |-> <<>>, final_data |-> None]

(***************************************************************************)
(* Initial state of the state subsystem: nothing persisted, nothing        *)
(* locked; the executor is not running.                                    *)
(***************************************************************************)
\* Names of environment variables, matching [A-Z_][A-Z0-9_]*.
Names == {"A", "B"}
\* resolve_env_vars has not returned.
NotResolved == [kind |-> "none", value |-> <<>>, name |-> ""]

\* Stage ids that step references name.
StageIds == {"reader", "parser"}
\* No output is recorded for the stage.
NoDocument == "none"

\* OxiDataType and Option<usize> limits.
OxiDataTypes == {"Json", "Text", "Binary", "Empty"}
Unlimited == [set |-> FALSE, n |-> 0]
Limit(n) == [set |-> TRUE, n |-> n]
\* ProcessingLimits of a stage that restricts nothing.
DefaultLimits ==
    [max_batch_size |-> Unlimited, max_memory_mb |-> Unlimited,
     supported_input_types |-> OxiDataTypes]
\* An envelope: its variant, whether a Json value is an array and of which
\* length, whether its estimated size is above one megabyte, whether the
\* stage's validate_input accepts it and whether it conforms to its schema.
Envelope(type, array, len, large, valid, conforms) ==
    [type |-> type, array |-> array, len |-> len, large |-> large, valid |-> valid,
     conforms |-> conforms]
EmptyInput == Envelope("Empty", FALSE, 0, FALSE, TRUE, TRUE)

\* Step ids the tracker is called with.
StepIds == {"extract", "load"}
\* StepState: no entry in step_states, and an entry.
NoStep ==
    [status |-> "absent", error |-> "", processing_time_ms |-> 0, records_processed |-> 0,
     retry_count |-> 0, error_count |-> 0]
\* PipelineState as the tracker sees it; no state is persisted.
NoTrackerState ==
    [exists |-> FALSE, status |-> "Pending", run_id |-> 0, current_step |-> "",
     step_states |-> [i \in StepIds |-> NoStep], records_processed |-> 0,
     records_failed |-> 0, retry_count |-> 0, errors |-> <<>>, checkpoint_count |-> 0,
     data_size_processed |-> 0]
\* A StepResult handed to complete_step, and none.
TrackedResult(step_id, success, error, retry_count, duration_ms) ==
    [step_id |-> step_id, success |-> success, error |-> error,
     retry_count |-> retry_count, duration_ms |-> duration_ms]
NoTrackedResult == TrackedResult("", TRUE, "", 0, 0)
NoCall == [op |-> "", before |-> NoTrackerState, result |-> NoTrackedResult, size |-> 0]
\* Option<PipelineTracker> of resume.
NoTracker == [present |-> FALSE, run_id |-> 0]
\* No call was made on the two backends yet.
NoOutcomes == [op |-> "", worker_id |-> "", file |-> NoResult, memory |-> NoResult]
\* BatchConfig::default(): batch_size 100, strategy Size, max_memory_mb 256.
DefaultBatchConfig == [batch_size |-> 100, strategy |-> "Size", max_memory_mb |-> 256]
\* CachedState: no entry under a pipeline id, and an entry.
NotCached == [present |-> FALSE, last_accessed |-> 0]
Cached(t) == [present |-> TRUE, last_accessed |-> t]
\* The size the cache of a FileBackend is bounded by (cache_max_size).
MaxCacheSize == 2
\* Pipeline ids: one more than the cache may hold.
PipelineIds == 1..(MaxCacheSize + 1)
\* verify_integrity has not returned an IntegrityReport.
NoReport ==
    [returned |-> FALSE, total_files_checked |-> 0, corrupted_files |-> 0,
     missing_files |-> 0, permission_errors |-> 0, checksum_mismatches |-> 0]
\* A persisted state by what is wrong with it: whether its bytes
\* deserialize, and the checks of PipelineState::validate it fails.
NothingPersisted == [exists |-> FALSE, corrupt |-> FALSE, defects |-> {}]
\* repair_state has not returned its RepairResult.
NotRepaired == [returned |-> FALSE, success |-> FALSE, manual_intervention_required |-> FALSE]
\* Number of distinct PipelineState values a state file can hold.
MaxContents == 2
\* No state file of the pipeline under states/.
NoFile == [content |-> 0, stale |-> FALSE]
\* load_state has not been called; no operation has changed the state file.
NotLoaded == [called |-> FALSE, result |-> 0, after |-> "none", file |-> 0]
\* The binary input and configuration before the Batch stage is called.
NoBinaryInput == [len |-> 0, strategy |-> "Size", batch_size |-> 0,
                  max_memory_mb |-> 0, flush_interval |-> FALSE]
\* A PipelineStep with no retries whose configuration resolves and whose
\* name is the name of a stage.
PlainStep == [retry_attempts |-> 0, resolves |-> TRUE, known |-> TRUE]
\* Instants of execute_with_retries, in milliseconds.
NoInstants == [now |-> 0, start_time |-> 0, attempt_start |-> 0]
\* Nothing was called by execute_once yet.
NoStepCalls == [to_oxi_config |-> 0, lookup |-> 0, process |-> 0]
\* execute_with_retries has not returned its StepResult.
NotReturned ==
    [returned |-> FALSE, success |-> FALSE, error |-> "", retry_count |-> 0,
     duration_ms |-> 0]

\* StateManagerConfig::default().max_retries.
DefaultMaxRetries == 3
\* save_state has not returned.
NoSaveResult == [kind |-> "none"]

Init ==
    /\ backend \in Backends
    /\ now = 0
    /\ states = NoState
    /\ cache = [w \in Workers |-> NoState]
    /\ lock = NoLock
    /\ flock = ""
    /\ fdOnPath = [w \in Workers |-> FALSE]
    /\ local = [w \in Workers |-> Idle]
    /\ holds = [w \in Workers |-> NoLock]
    /\ pendingRelease = [w \in Workers |-> 0]
    /\ hbTask = "off"
    /\ hbLoaded = NoState
    /\ calls = [w \in Workers |-> 0]
    /\ hbCount = 0
    /\ doneOps = 0
    /\ doneHb = 0
    /\ lastWrite = NoWrite
    /\ steps = <<>>
    /\ pipePc = "unloaded"
    /\ index = 0
    /\ steps_executed = 0
    /\ steps_failed = 0
    /\ attempt = 0
    /\ attemptTime = 0
    /\ current_data = <<>>
    /\ step_results = <<>>
    /\ attemptLog = <<>>
    /\ pipeResult = NoPipelineResult
    /\ inode = <<>>
    /\ statePath = 0
    /\ tmpPath = 0
    /\ writer = [w \in Workers |-> IdleWriter]
    /\ saves = 0
    /\ lastRead = NotRead
    /\ task = [t \in Tasks |-> IdleTask]
    /\ latest = [set |-> FALSE, state |-> NoState]
    /\ cacheOps = 0
    /\ backups = <<>>
    /\ repairResult = NoRepair
    /\ max_retries = DefaultMaxRetries
    /\ retries = 0
    /\ retryPc = "idle"
    /\ operationLog = <<>>
    /\ sleeps = <<>>
    /\ saveResult = NoSaveResult
    /\ obsPc = "idle"
    /\ obsOp = "none"
    /\ obsNext = 1
    /\ obsWrite = "pending"
    /\ obsCalls = 0
    /\ callbacks = <<>>
    /\ obsResult = NoSaveResult
    /\ env_vars = [n \in Names |-> None]
    /\ environ = [n \in Names |-> None]
    /\ resPc = "idle"
    /\ text = <<>>
    /\ resolved = NotResolved
    /\ step_outputs = [s \in StageIds |-> NoDocument]
    /\ refPc = "idle"
    /\ refStage = ""
    /\ refPath = <<>>
    /\ resolverResult = NotResolved
    /\ contextResult = NotResolved
    /\ subPc = "idle"
    /\ subText = <<>>
    /\ subResolver = NotResolved
    /\ subContext = NotResolved
    /\ oxiPc = "new"
    /\ limits = DefaultLimits
    /\ oxiInput = EmptyInput
    /\ processed = FALSE
    /\ oxiResult = "none"
    /\ tstate = NoTrackerState
    /\ nextRunId = 0
    /\ trackerOps = 0
    /\ lastCall = NoCall
    /\ canResume = FALSE
    /\ resumed = NoTracker
    /\ fileLocks = NoLock
    /\ memoryLocks = NoLock
    /\ pairNow = 0
    /\ pairOps = 0
    /\ outcomes = NoOutcomes
    /\ batchPc = "new"
    /\ batchItems = <<>>
    /\ batchConfig = DefaultBatchConfig
    /\ batches = <<>>
    /\ onceStep = PlainStep
    /\ oncePc = "new"
    /\ onceAttempt = 0
    /\ instants = NoInstants
    /\ onceCalls = NoStepCalls
    /\ onceResult = NotReturned
    /\ lru = [i \in PipelineIds |-> NotCached]
    /\ files = {}
    /\ lruNow = 0
    /\ lruOps = 0
    /\ statesDir = <<>>
    /\ report = NoReport
    /\ persisted = NothingPersisted
    /\ repaired = NotRepaired
    /\ stateFile = NoFile
    /\ cacheEntry = 0
    /\ backupFiles = {}
    /\ lastChange = "none"
    /\ lastLoad = NotLoaded
    /\ binPc = "idle"
    /\ binInput = NoBinaryInput
    /\ current_pos = 0
    /\ chunks = <<>>

Return(p, r) == local' = [local EXCEPT ![p] = [Idle EXCEPT !.result = r]]

\* A worker makes one call at a time.  Calls that write the persisted state
\* are counted, which bounds the counters of the state.
CanCall(p) == local[p].pc = "idle"
CanUpdate(p) == local[p].pc = "idle" /\ calls[p] < MaxCalls

\* Time passes.
Tick ==
    /\ now < MaxTime
    /\ now' = now + 1
    /\ UNCHANGED <<backend, states, cache, lock, flock, fdOnPath, local, holds,
                   pendingRelease, hbTask, hbLoaded, calls, hbCount, doneOps, doneHb,
                   lastWrite>>
    /\ UNCHANGED <<pipeVars, otherVars>>

(***************************************************************************)
(* acquire_lock                                                            *)
(***************************************************************************)
\* StateManager::acquire_lock(pipeline_id, timeout_ms) is entered.  The file
\* backend builds its LockInfo here, before its loop (expires_at = now + T).
CallAcquireLock(p, T) ==
    /\ CanCall(p)
    /\ holds[p].kind = "none"
    /\ local' = [local EXCEPT ![p] = [Idle EXCEPT !.pc = "acquire", !.op = "acquire_lock",
                     !.timeout_ms = T, !.start_time = now, !.expires_at = now + T]]
    /\ UNCHANGED calls
    /\ UNCHANGED <<backend, now, states, cache, lock, flock, fdOnPath, holds,
                   pendingRelease, hbTask, hbLoaded, hbCount, doneOps, doneHb,
                   lastWrite>>
    /\ UNCHANGED <<pipeVars, otherVars>>

\* StateManager::update_state_locked is entered: it acquires with the
\* configured default timeout.
CallUpdateStateLocked(p) ==
    /\ CanUpdate(p)
    /\ holds[p].kind = "none"
    /\ local' = [local EXCEPT ![p] = [Idle EXCEPT !.pc = "acquire",
                     !.op = "update_state_locked",
                     !.timeout_ms = default_lock_timeout_ms, !.start_time = now,
                     !.expires_at = now + default_lock_timeout_ms]]
    /\ calls' = [calls EXCEPT ![p] = @ + 1]
    /\ UNCHANGED <<backend, now, states, cache, lock, flock, fdOnPath, holds,
                   pendingRelease, hbTask, hbLoaded, hbCount, doneOps, doneHb,
                   lastWrite>>
    /\ UNCHANGED <<pipeVars, otherVars>>

\* acquire_lock returns Ok(info): a bare acquire returns to the caller, which
\* keeps the handle; update_state_locked goes on to load.
AfterGrant(p, info) ==
    IF local[p].op = "acquire_lock"
    THEN [Idle EXCEPT !.result = Ok]
    ELSE [local[p] EXCEPT !.pc = "load", !.expires_at = info.expires_at]

\* MemoryBackend::acquire_lock, one turn of its loop, under the locks map's
\* write guard: a valid lock times the caller out or makes it sleep; no lock
\* or an expired one is replaced by the caller's.
MemoryAcquireProbe(p) ==
    /\ backend = "memory"
    /\ local[p].pc = "acquire"
    /\ LET T == local[p].timeout_ms
           info == LockInfo(p, now + T) IN
       IF lock.kind = "record" /\ ~(now > lock.expires_at)
       THEN IF now - local[p].start_time >= T
            THEN /\ Return(p, LockTimeout(T))
                 /\ UNCHANGED <<lock, holds>>
            ELSE UNCHANGED <<local, lock, holds>>
       ELSE /\ lock' = info
            /\ holds' = [holds EXCEPT ![p] = info]
            /\ local' = [local EXCEPT ![p] = AfterGrant(p, info)]
    /\ UNCHANGED <<backend, now, states, cache, flock, fdOnPath, pendingRelease,
                   hbTask, hbLoaded, calls, hbCount, doneOps, doneHb, lastWrite>>
    /\ UNCHANGED <<pipeVars, otherVars>>

\* FileBackend::acquire_lock, one turn of its loop up to try_lock_exclusive:
\* the lock file is opened with create + truncate (its content is gone
\* whoever wrote it), then the OS lock is tried.
FileAcquireOpen(p) ==
    /\ backend = "file"
    /\ local[p].pc = "acquire"
    /\ lock' = InvalidLock
    /\ LET T == local[p].timeout_ms IN
       IF flock = ""
       THEN /\ flock' = p
            /\ fdOnPath' = [fdOnPath EXCEPT ![p] = TRUE]
            /\ local' = [local EXCEPT ![p].pc = "acquire_write"]
       ELSE IF now - local[p].start_time >= T
            THEN /\ Return(p, LockTimeout(T))
                 /\ UNCHANGED <<flock, fdOnPath>>
            ELSE UNCHANGED <<local, flock, fdOnPath>>
    /\ UNCHANGED <<backend, now, states, cache, holds, pendingRelease,
                   hbTask, hbLoaded, calls, hbCount, doneOps, doneHb, lastWrite>>
    /\ UNCHANGED <<pipeVars, otherVars>>

\* FileBackend::acquire_lock: write_all + flush of the serialized LockInfo.
FileAcquireWrite(p) ==
    /\ backend = "file"
    /\ local[p].pc = "acquire_write"
    /\ lock' = IF fdOnPath[p] THEN LockInfo(p, local[p].expires_at) ELSE lock
    /\ local' = [local EXCEPT ![p].pc = "acquire_close"]
    /\ UNCHANGED <<backend, now, states, cache, flock, fdOnPath, holds, pendingRelease,
                   hbTask, hbLoaded, calls, hbCount, doneOps, doneHb, lastWrite>>
    /\ UNCHANGED <<pipeVars, otherVars>>

\* FileBackend::acquire_lock returns Ok(lock_info): the File goes out of
\* scope, which closes it and gives up the OS lock.
FileAcquireClose(p) ==
    /\ backend = "file"
    /\ local[p].pc = "acquire_close"
    /\ LET info == LockInfo(p, local[p].expires_at) IN
       /\ flock' = IF fdOnPath[p] /\ flock = p THEN "" ELSE flock
       /\ fdOnPath' = [fdOnPath EXCEPT ![p] = FALSE]
       /\ holds' = [holds EXCEPT ![p] = info]
       /\ local' = [local EXCEPT ![p] = AfterGrant(p, info)]
    /\ UNCHANGED <<backend, now, states, cache, lock, pendingRelease,
                   hbTask, hbLoaded, calls, hbCount, doneOps, doneHb, lastWrite>>
    /\ UNCHANGED <<pipeVars, otherVars>>


(***************************************************************************)
(* update_state and update_state_locked: load, apply, save.                *)
(***************************************************************************)
\* StateManager::update_state is entered (update_progress, add_error,
\* update_step_state): no lock is taken.
CallUpdateState(p) ==
    /\ CanUpdate(p)
    /\ local' = [local EXCEPT ![p] = [Idle EXCEPT !.pc = "load", !.op = "update_state"]]
    /\ calls' = [calls EXCEPT ![p] = @ + 1]
    /\ UNCHANGED <<backend, now, states, cache, lock, flock, fdOnPath, holds,
                   pendingRelease, hbTask, hbLoaded, hbCount, doneOps, doneHb,
                   lastWrite>>
    /\ UNCHANGED <<pipeVars, otherVars>>

Locked(p) == local[p].op = "update_state_locked"

\* self.load_state(pipeline_id).await?  On an error the call returns, and
\* the scoped lock of update_state_locked is dropped: its Drop spawns the
\* release task.
Load(p) ==
    /\ local[p].pc = "load"
    /\ LET s == LoadStateOf(p) IN
       IF s.exists
       THEN /\ local' = [local EXCEPT ![p].pc = "save", ![p].state = s]
            /\ cache' = CacheAfterLoad(p)
            /\ UNCHANGED <<holds, pendingRelease>>
       ELSE /\ Return(p, PipelineNotFound)
            /\ holds' = [holds EXCEPT ![p] = NoLock]
            /\ pendingRelease' = [pendingRelease EXCEPT ![p] = IF Locked(p) THEN @ + 1 ELSE @]
            /\ UNCHANGED cache
    /\ UNCHANGED <<backend, now, states, lock, flock, fdOnPath, hbTask, hbLoaded, calls,
                   hbCount, doneOps, doneHb, lastWrite>>
    /\ UNCHANGED <<pipeVars, otherVars>>

\* updater(&mut state); self.save_state(&state).await?; Ok(result), and the
\* scoped lock is dropped.
Save(p) ==
    /\ local[p].pc = "save"
    /\ SaveState(p, Mutate(local[p].op, local[p].state))
    /\ Return(p, Ok)
    /\ holds' = [holds EXCEPT ![p] = NoLock]
    /\ pendingRelease' = [pendingRelease EXCEPT ![p] = IF Locked(p) THEN @ + 1 ELSE @]
    /\ doneOps' = IF Locked(p) THEN doneOps + 1 ELSE doneOps
    /\ UNCHANGED <<backend, now, lock, flock, fdOnPath, hbTask, hbLoaded, calls,
                   hbCount, doneHb>>
    /\ UNCHANGED <<pipeVars, otherVars>>

\* The caller of StateManager::acquire_lock drops its StateManagerLock.
DropLock(p) ==
    /\ local[p].pc = "idle"
    /\ holds[p].kind = "record"
    /\ pendingRelease[p] < MaxPending
    /\ holds' = [holds EXCEPT ![p] = NoLock]
    /\ pendingRelease' = [pendingRelease EXCEPT ![p] = @ + 1]
    /\ UNCHANGED <<backend, now, states, cache, lock, flock, fdOnPath, local,
                   hbTask, hbLoaded, calls, hbCount, doneOps, doneHb, lastWrite>>
    /\ UNCHANGED <<pipeVars, otherVars>>

\* The task spawned by Drop for StateManagerLock runs release_lock; an error
\* is printed, not returned.
ReleaseTask(p) ==
    /\ pendingRelease[p] > 0
    /\ LET r == ReleaseLockOf(lock, p, now) IN
       /\ SetLock(r.after)
    /\ pendingRelease' = [pendingRelease EXCEPT ![p] = @ - 1]
    /\ UNCHANGED <<backend, now, states, cache, local, holds,
                   hbTask, hbLoaded, calls, hbCount, doneOps, doneHb, lastWrite>>
    /\ UNCHANGED <<pipeVars, otherVars>>

(***************************************************************************)
(* The other backend calls, each one step.                                 *)
(***************************************************************************)
\* release_lock(pipeline_id, worker_id) called directly.
ReleaseLock(p) ==
    /\ CanCall(p)
    /\ LET r == ReleaseLockOf(lock, p, now) IN
       /\ SetLock(r.after)
       /\ Return(p, r.result)
    /\ holds' = [holds EXCEPT ![p] = NoLock]
    /\ UNCHANGED calls
    /\ UNCHANGED <<backend, now, states, cache, pendingRelease,
                   hbTask, hbLoaded, hbCount, doneOps, doneHb, lastWrite>>
    /\ UNCHANGED <<pipeVars, otherVars>>

\* is_locked(pipeline_id): Some(info) is reported as Ok with the holder.
IsLocked(p) ==
    /\ CanCall(p)
    /\ LET r == IsLockedOf(lock, now)
           res == [Ok EXCEPT !.worker_id = r.info.worker_id] IN
       /\ SetLock(r.after)
       /\ Return(p, res)
    /\ UNCHANGED calls
    /\ UNCHANGED <<backend, now, states, cache, holds, pendingRelease,
                   hbTask, hbLoaded, hbCount, doneOps, doneHb, lastWrite>>
    /\ UNCHANGED <<pipeVars, otherVars>>

\* force_release_lock(pipeline_id): the lock goes, whoever holds it.
ForceReleaseLock(p) ==
    /\ CanCall(p)
    /\ SetLock(NoLock)
    /\ Return(p, Ok)
    /\ holds' = [w \in Workers |-> NoLock]
    /\ UNCHANGED calls
    /\ UNCHANGED <<backend, now, states, cache, pendingRelease,
                   hbTask, hbLoaded, hbCount, doneOps, doneHb, lastWrite>>
    /\ UNCHANGED <<pipeVars, otherVars>>

\* delete_state(pipeline_id): both backends remove the state and the lock,
\* without looking at the lock's owner; the file backend invalidates the
\* cache entry of the instance that deletes.
DeleteState(p) ==
    /\ CanCall(p)
    /\ states' = NoState
    /\ cache' = IF backend = "file" THEN [cache EXCEPT ![p] = NoState] ELSE cache
    /\ SetLock(NoLock)
    /\ Return(p, Ok)
    /\ holds' = [w \in Workers |-> NoLock]
    /\ UNCHANGED calls
    /\ doneOps' = 0
    /\ doneHb' = 0
    /\ lastWrite' = NoWrite
    /\ UNCHANGED <<backend, now, pendingRelease, hbTask, hbLoaded, hbCount>>
    /\ UNCHANGED <<pipeVars, otherVars>>

\* PipelineTracker::new (initialize_state) and
\* StateManager::initialize_pipeline: a state with version 1 is saved.
Initialize(p) ==
    /\ CanUpdate(p)
    /\ SaveState(p, NewState)
    /\ Return(p, Ok)
    /\ calls' = [calls EXCEPT ![p] = @ + 1]
    /\ doneOps' = 0
    /\ doneHb' = 0
    /\ UNCHANGED <<backend, now, lock, flock, fdOnPath, holds, pendingRelease,
                   hbTask, hbLoaded, hbCount>>
    /\ UNCHANGED <<pipeVars, otherVars>>

(***************************************************************************)
(* The heartbeat task of worker "A" (StateManager::start_heartbeat).       *)
(***************************************************************************)
StartHeartbeat ==
    /\ hbTask = "off"
    /\ hbCount < MaxHeartbeats
    /\ hbTask' = "tick"
    /\ UNCHANGED <<backend, now, states, cache, lock, flock, fdOnPath, local, holds,
                   pendingRelease, hbLoaded, calls, hbCount, doneOps, doneHb,
                   lastWrite>>
    /\ UNCHANGED <<pipeVars, otherVars>>

\* interval.tick() fires and update_heartbeat starts: update_state loads,
\* with no lock.  An error ends the task.
HeartbeatLoad ==
    /\ hbTask = "tick"
    /\ hbCount < MaxHeartbeats
    /\ hbCount' = hbCount + 1
    /\ LET s == LoadStateOf("A") IN
       IF s.exists
       THEN /\ hbTask' = "loaded"
            /\ hbLoaded' = s
            /\ cache' = CacheAfterLoad("A")
       ELSE /\ hbTask' = "off"
            /\ UNCHANGED <<hbLoaded, cache>>
    /\ UNCHANGED <<backend, now, states, lock, flock, fdOnPath, local, holds,
                   pendingRelease, calls, doneOps, doneHb, lastWrite>>
    /\ UNCHANGED <<pipeVars, otherVars>>

\* update_heartbeat: state.update_heartbeat() and save_state.
HeartbeatSave ==
    /\ hbTask = "loaded"
    /\ SaveState("A", update_heartbeat(hbLoaded))
    /\ hbTask' = "tick"
    /\ hbLoaded' = NoState
    /\ doneHb' = doneHb + 1
    /\ UNCHANGED <<backend, now, lock, flock, fdOnPath, local, holds,
                   pendingRelease, calls, hbCount, doneOps>>
    /\ UNCHANGED <<pipeVars, otherVars>>

\* HeartbeatHandle::stop aborts the task.
StopHeartbeat ==
    /\ hbTask # "off"
    /\ hbTask' = "off"
    /\ hbLoaded' = NoState
    /\ UNCHANGED <<backend, now, states, cache, lock, flock, fdOnPath, local, holds,
                   pendingRelease, calls, hbCount, doneOps, doneHb, lastWrite>>
    /\ UNCHANGED <<pipeVars, otherVars>>

\* The lock protocol alone: the backend's lock calls by both workers.
NextLock ==
    \/ Tick
    \/ \E p \in Workers, T \in 0..MaxTimeout : CallAcquireLock(p, T)
    \/ \E p \in Workers : MemoryAcquireProbe(p)
    \/ \E p \in Workers : FileAcquireOpen(p)
    \/ \E p \in Workers : FileAcquireWrite(p)
    \/ \E p \in Workers : FileAcquireClose(p)
    \/ \E p \in Workers : DropLock(p)
    \/ \E p \in Workers : ReleaseTask(p)
    \/ \E p \in Workers : ReleaseLock(p)
    \/ \E p \in Workers : IsLocked(p)
    \/ \E p \in Workers : ForceReleaseLock(p)
    \/ \E p \in Workers : DeleteState(p)

\* The writers of the persisted state: the tracker's locked updates, the
\* manager's unlocked updates and the heartbeat task, with the lock steps
\* update_state_locked goes through.
NextUpdate ==
    \/ \E p \in Workers : Initialize(p)
    \/ \E p \in Workers : CallUpdateStateLocked(p)
    \/ \E p \in Workers : MemoryAcquireProbe(p)
    \/ \E p \in Workers : FileAcquireOpen(p)
    \/ \E p \in Workers : FileAcquireWrite(p)
    \/ \E p \in Workers : FileAcquireClose(p)
    \/ \E p \in Workers : CallUpdateState(p)
    \/ \E p \in Workers : Load(p)
    \/ \E p \in Workers : Save(p)
    \/ \E p \in Workers : ReleaseTask(p)
    \/ StartHeartbeat
    \/ HeartbeatLoad
    \/ HeartbeatSave
    \/ StopHeartbeat

\* The tracker's locked updates against the heartbeat task: NextUpdate
\* without the manager's own unlocked updates.
NextHeartbeat ==
    \/ \E p \in Workers : Initialize(p)
    \/ \E p \in Workers : CallUpdateStateLocked(p)
    \/ \E p \in Workers : MemoryAcquireProbe(p)
    \/ \E p \in Workers : FileAcquireOpen(p)
    \/ \E p \in Workers : FileAcquireWrite(p)
    \/ \E p \in Workers : FileAcquireClose(p)
    \/ \E p \in Workers : Load(p)
    \/ \E p \in Workers : Save(p)
    \/ \E p \in Workers : ReleaseTask(p)
    \/ StartHeartbeat
    \/ HeartbeatLoad
    \/ HeartbeatSave
    \/ StopHeartbeat

\* update_state_locked and the release task its scoped lock spawns.
NextRelease ==
    \/ \E p \in Workers : Initialize(p)
    \/ \E p \in Workers : CallUpdateStateLocked(p)
    \/ \E p \in Workers : MemoryAcquireProbe(p)
    \/ \E p \in Workers : FileAcquireOpen(p)
    \/ \E p \in Workers : FileAcquireWrite(p)
    \/ \E p \in Workers : FileAcquireClose(p)
    \/ \E p \in Workers : Load(p)
    \/ \E p \in Workers : Save(p)
    \/ \E p \in Workers : ReleaseTask(p)

SpecLock == Init /\ [][NextLock]_vars
\* The runtime runs every task that was spawned.
SpecRelease == Init /\ [][NextRelease]_vars /\ \A p \in Workers : WF_vars(ReleaseTask(p))
SpecUpdate == Init /\ [][NextUpdate]_vars
SpecHeartbeat == Init /\ [][NextHeartbeat]_vars

(***************************************************************************)
(* The pipeline executor (pipeline.rs).                                    *)
(***************************************************************************)
\* StepResult; step_id is the step's index in the declaration.
StepResult(i, ok, d, n) ==
    [step_id |-> i, success |-> ok, data |-> d, retry_count |-> n]

\* The output of a stage's process(input, config) when it succeeds.
Process(i, input) == Append(input, i + 1)

\* A retry loop that gives up one attempt early.
ShouldRetry_OneFewer(step, n) == n + 1 < step.retry_attempts

\* PipelineStep::execute_with_retries: whether a failed attempt is retried.
ShouldRetry(step, n) == n < step.retry_attempts

\* A loop that never replaces the envelope it started with.
ThreadData_Keep(cur, r) == cur

\* Pipeline::execute_with_retries: the envelope threaded on after a step.
ThreadData(cur, r) ==
    IF r.success /\ r.data.present THEN r.data.value ELSE cur

\* An abort that counts no step as skipped.
StepsSkipped_None(len, i) == 0

\* A count of skipped steps that includes the failing step.
StepsSkipped_WithFailing(len, i) == len - i

\* Pipeline::execute_with_retries: the steps counted as skipped on abort.
StepsSkipped(len, i) == len - i - 1

\* A result that carries the envelope whether the run succeeded or not.
FinalData_Always(success, cur) == Some(cur)

\* Pipeline::execute_with_retries: final_data of the result at the end.
FinalData(success, cur) == IF success THEN Some(cur) ELSE None

\* A timeout that never expires.
Expired_Never(step, t) == FALSE

\* tokio::time::timeout around execute_once: the attempt has run for longer
\* than the step's timeout_seconds.
Expired(step, t) == step.timeout_seconds # NoTimeout /\ t > step.timeout_seconds

\* One record of attemptLog: execute_once was invoked for step i, attempt n,
\* ran for t seconds and ended with Ok or Err.
Invocation(i, n, input, ok, t) ==
    [index |-> i, attempt |-> n, input |-> input, ok |-> ok, elapsed |-> t]

\* Pipeline::load_from_file: a declaration is loaded.
LoadPipeline ==
    /\ pipePc = "unloaded"
    /\ \E decl \in Declarations : steps' = decl
    /\ pipePc' = "loaded"
    /\ UNCHANGED <<index, attempt, attemptTime, current_data, step_results,
                   steps_executed, steps_failed, attemptLog, pipeResult>>
    /\ UNCHANGED <<stateVars, otherVars>>

\* Pipeline::load_from_file: a declaration of one step with a timeout is loaded.
LoadTimedPipeline ==
    /\ pipePc = "unloaded"
    /\ \E decl \in TimedDeclarations : steps' = decl
    /\ pipePc' = "loaded"
    /\ UNCHANGED <<index, attempt, attemptTime, current_data, step_results,
                   steps_executed, steps_failed, attemptLog, pipeResult>>
    /\ UNCHANGED <<stateVars, otherVars>>

\* Pipeline::execute_with_retries is entered with the Empty envelope.
Execute ==
    /\ pipePc = "loaded"
    /\ pipePc' = "running"
    /\ current_data' = Empty
    /\ step_results' = <<>>
    /\ steps_executed' = 0
    /\ steps_failed' = 0
    /\ index' = 0
    /\ attempt' = 0
    /\ attemptTime' = 0
    /\ UNCHANGED <<steps, attemptLog, pipeResult>>
    /\ UNCHANGED <<stateVars, otherVars>>

\* A second passes while the attempt of a step with a timeout is running and
\* the timeout has not fired.
AttemptRuns ==
    /\ pipePc = "running"
    /\ index < Len(steps)
    /\ steps[index + 1].timeout_seconds # NoTimeout
    /\ ~Expired(steps[index + 1], attemptTime)
    /\ attemptTime <= MaxTimeoutSecs
    /\ attemptTime' = attemptTime + 1
    /\ UNCHANGED <<steps, pipePc, index, attempt, current_data, step_results,
                   steps_executed, steps_failed, attemptLog, pipeResult>>
    /\ UNCHANGED <<stateVars, otherVars>>

\* An attempt of the current step succeeds: the step returns its StepResult
\* and the pipeline loop takes the success branch and goes to the next step.
AttemptSucceeds ==
    /\ pipePc = "running"
    /\ index < Len(steps)
    /\ ~Expired(steps[index + 1], attemptTime)
    /\ LET r == StepResult(index, TRUE, Some(Process(index, current_data)), attempt) IN
       /\ attemptLog' = Append(attemptLog, Invocation(index, attempt, current_data, TRUE, attemptTime))
       /\ current_data' = ThreadData(current_data, r)
       /\ steps_executed' = steps_executed + 1
       /\ step_results' = Append(step_results, r)
    /\ index' = index + 1
    /\ attempt' = 0
    /\ attemptTime' = 0
    /\ UNCHANGED <<steps, pipePc, steps_failed, pipeResult>>
    /\ UNCHANGED <<stateVars, otherVars>>

\* An attempt of the current step fails and attempts remain: the step sleeps
\* and goes round its loop.
AttemptFailsRetry ==
    /\ pipePc = "running"
    /\ index < Len(steps)
    /\ ShouldRetry(steps[index + 1], attempt)
    /\ attemptLog' = Append(attemptLog, Invocation(index, attempt, current_data, FALSE, attemptTime))
    /\ attempt' = attempt + 1
    /\ attemptTime' = 0
    /\ UNCHANGED <<steps, pipePc, index, current_data, step_results, steps_executed,
                   steps_failed, pipeResult>>
    /\ UNCHANGED <<stateVars, otherVars>>

\* The last attempt of the current step fails and continue_on_error is set:
\* the pipeline loop counts the failure and goes to the next step.
StepFailsContinue ==
    /\ pipePc = "running"
    /\ index < Len(steps)
    /\ ~ShouldRetry(steps[index + 1], attempt)
    /\ steps[index + 1].continue_on_error
    /\ LET r == StepResult(index, FALSE, None, attempt) IN
       /\ attemptLog' = Append(attemptLog, Invocation(index, attempt, current_data, FALSE, attemptTime))
       /\ current_data' = ThreadData(current_data, r)
       /\ steps_failed' = steps_failed + 1
       /\ step_results' = Append(step_results, r)
    /\ index' = index + 1
    /\ attempt' = 0
    /\ attemptTime' = 0
    /\ UNCHANGED <<steps, pipePc, steps_executed, pipeResult>>
    /\ UNCHANGED <<stateVars, otherVars>>

\* The last attempt of the current step fails and continue_on_error is not
\* set: the pipeline returns at once.
StepFailsAbort ==
    /\ pipePc = "running"
    /\ index < Len(steps)
    /\ ~ShouldRetry(steps[index + 1], attempt)
    /\ ~steps[index + 1].continue_on_error
    /\ LET r == StepResult(index, FALSE, None, attempt) IN
       /\ attemptLog' = Append(attemptLog, Invocation(index, attempt, current_data, FALSE, attemptTime))
       /\ steps_failed' = steps_failed + 1
       /\ step_results' = Append(step_results, r)
       /\ pipeResult' = [returned |-> TRUE, success |-> FALSE,
                         steps_executed |-> steps_executed,
                         steps_failed |-> steps_failed + 1,
                         steps_skipped |-> StepsSkipped(Len(steps), index),
                         step_results |-> Append(step_results, r),
                         final_data |-> None]
    /\ pipePc' = "returned"
    /\ UNCHANGED <<steps, index, attempt, attemptTime, current_data, steps_executed>>
    /\ UNCHANGED <<stateVars, otherVars>>

\* The loop over the steps is over: the pipeline returns its result.
Finish ==
    /\ pipePc = "running"
    /\ index = Len(steps)
    /\ LET success == steps_failed = 0 IN
       pipeResult' = [returned |-> TRUE, success |-> success,
                      steps_executed |-> steps_executed,
                      steps_failed |-> steps_failed,
                      steps_skipped |-> 0,
                      step_results |-> step_results,
                      final_data |-> FinalData(success, current_data)]
    /\ pipePc' = "returned"
    /\ UNCHANGED <<steps, index, attempt, attemptTime, current_data, step_results,
                   steps_executed, steps_failed, attemptLog>>
    /\ UNCHANGED <<stateVars, otherVars>>

NextPipeline ==
    \/ LoadPipeline
    \/ Execute
    \/ AttemptSucceeds
    \/ AttemptFailsRetry
    \/ StepFailsContinue
    \/ StepFailsAbort
    \/ Finish

\* The executor on a step that declares a timeout.
NextTimeout ==
    \/ LoadTimedPipeline
    \/ Execute
    \/ AttemptRuns
    \/ AttemptSucceeds
    \/ AttemptFailsRetry
    \/ StepFailsContinue
    \/ StepFailsAbort
    \/ Finish

SpecPipeline == Init /\ [][NextPipeline]_vars
SpecTimeout == Init /\ [][NextTimeout]_vars

(***************************************************************************)
(* The state file on disk: FileBackend::save_state with atomic_writes      *)
(* enabled, by writers that share the path of the temporary file, and the  *)
(* read of load_state.                                                     *)
(***************************************************************************)
notFileVars == <<stateVars, pipeVars, cacheVars, repairVars, laterVars>>

\* deserialize_state of the bytes read from the state file.
Deserialize(bytes) == IF bytes.written THEN ReadValid(bytes.save) ELSE ReadInvalid

\* save_state is called: the state is serialized.
SaveBegin(w) ==
    /\ writer[w].pc = "idle"
    /\ saves < MaxSaves
    /\ saves' = saves + 1
    /\ writer' = [writer EXCEPT ![w] = [pc |-> "open", fd |-> 0,
                                        data |-> Serialized(saves + 1),
                                        result |-> NoResult]]
    /\ UNCHANGED <<inode, statePath, tmpPath, lastRead>>
    /\ UNCHANGED notFileVars

\* write_file_atomic, fs::write(temp_path): the temporary file is created,
\* or opened and truncated if it is there.
TmpOpen(w) ==
    /\ writer[w].pc = "open"
    /\ IF tmpPath = 0
       THEN /\ inode' = Append(inode, NoBytes)
            /\ tmpPath' = Len(inode) + 1
            /\ writer' = [writer EXCEPT ![w].pc = "write", ![w].fd = Len(inode) + 1]
       ELSE /\ inode' = [inode EXCEPT ![tmpPath] = NoBytes]
            /\ writer' = [writer EXCEPT ![w].pc = "write", ![w].fd = tmpPath]
            /\ UNCHANGED tmpPath
    /\ UNCHANGED <<statePath, saves, lastRead>>
    /\ UNCHANGED notFileVars

\* write_file_atomic, fs::write(temp_path): the data is written through the
\* open handle, whatever path the file is at by now.
TmpWrite(w) ==
    /\ writer[w].pc = "write"
    /\ inode' = [inode EXCEPT ![writer[w].fd] = writer[w].data]
    /\ writer' = [writer EXCEPT ![w].pc = "rename", ![w].fd = 0]
    /\ UNCHANGED <<statePath, tmpPath, saves, lastRead>>
    /\ UNCHANGED notFileVars

\* write_file_atomic, fs::rename(temp_path, path): whatever file is at the
\* temporary path becomes the state file; no such file is an IoError.
TmpRename(w) ==
    /\ writer[w].pc = "rename"
    /\ IF tmpPath = 0
       THEN /\ writer' = [writer EXCEPT ![w] = [IdleWriter EXCEPT !.result = IoError]]
            /\ UNCHANGED <<statePath, tmpPath>>
       ELSE /\ statePath' = tmpPath
            /\ tmpPath' = 0
            /\ writer' = [writer EXCEPT ![w] = [IdleWriter EXCEPT !.result = Ok]]
    /\ UNCHANGED <<inode, saves, lastRead>>
    /\ UNCHANGED notFileVars

\* load_state past the cache: the state file is read and deserialized.
ReadStateFile ==
    /\ lastRead' = IF statePath = 0 THEN ReadNotFound ELSE Deserialize(inode[statePath])
    /\ UNCHANGED <<inode, statePath, tmpPath, writer, saves>>
    /\ UNCHANGED notFileVars

NextFile ==
    \/ \E w \in Workers : SaveBegin(w)
    \/ \E w \in Workers : TmpOpen(w)
    \/ \E w \in Workers : TmpWrite(w)
    \/ \E w \in Workers : TmpRename(w)
    \/ ReadStateFile

SpecFile == Init /\ [][NextFile]_vars

(***************************************************************************)
(* The cache of one FileBackend under concurrent tasks: load_state,        *)
(* save_state and delete_state with their file step and their cache step.  *)
(***************************************************************************)
notCacheVars ==
    <<backend, now, flock, fdOnPath, local, holds, pendingRelease, hbTask, hbLoaded,
      calls, hbCount, doneOps, doneHb, lastWrite, pipeVars, fileVars, repairVars,
      laterVars>>

\* No save_state or delete_state is in progress.  The tasks issue their
\* writes one at a time; loads run alongside them.
NoWriteInProgress == \A u \in Tasks : task[u].pc \in {"idle", "load_store"}

\* load_state: get_from_cache answers on a hit; on a miss the file is read.
TaskLoadRead(t) ==
    /\ backend = "file"
    /\ task[t].pc = "idle"
    /\ IF cache["A"].exists
       THEN task' = [task EXCEPT ![t] = [IdleTask EXCEPT !.state = cache["A"], !.result = Ok]]
       ELSE IF ~states.exists
            THEN task' = [task EXCEPT ![t] = [IdleTask EXCEPT !.result = PipelineNotFound]]
            ELSE task' = [task EXCEPT ![t] = [pc |-> "load_store", state |-> states,
                                              result |-> NoResult]]
    /\ UNCHANGED <<states, cache, lock, latest, cacheOps>>
    /\ UNCHANGED notCacheVars

\* load_state: store_in_cache of the state that was read, and return.
TaskLoadStore(t) ==
    /\ task[t].pc = "load_store"
    /\ cache' = [cache EXCEPT !["A"] = task[t].state]
    /\ task' = [task EXCEPT ![t] = [IdleTask EXCEPT !.state = task[t].state, !.result = Ok]]
    /\ UNCHANGED <<states, lock, latest, cacheOps>>
    /\ UNCHANGED notCacheVars

\* save_state: write_file_atomic of the new state.
TaskSaveWrite(t) ==
    /\ backend = "file"
    /\ task[t].pc = "idle"
    /\ NoWriteInProgress
    /\ cacheOps < MaxCacheOps
    /\ cacheOps' = cacheOps + 1
    /\ states' = SavedState(cacheOps + 1)
    /\ task' = [task EXCEPT ![t] = [pc |-> "save_store", state |-> SavedState(cacheOps + 1),
                                    result |-> NoResult]]
    /\ UNCHANGED <<cache, lock, latest>>
    /\ UNCHANGED notCacheVars

\* save_state: store_in_cache of the new state, and return.
TaskSaveStore(t) ==
    /\ task[t].pc = "save_store"
    /\ cache' = [cache EXCEPT !["A"] = task[t].state]
    /\ latest' = [set |-> TRUE, state |-> task[t].state]
    /\ task' = [task EXCEPT ![t] = [IdleTask EXCEPT !.result = Ok]]
    /\ UNCHANGED <<states, lock, cacheOps>>
    /\ UNCHANGED notCacheVars

\* delete_state: the state file and the lock file are removed.
TaskDeleteFiles(t) ==
    /\ backend = "file"
    /\ task[t].pc = "idle"
    /\ NoWriteInProgress
    /\ cacheOps < MaxCacheOps
    /\ cacheOps' = cacheOps + 1
    /\ states' = NoState
    /\ lock' = NoLock
    /\ task' = [task EXCEPT ![t] = [pc |-> "invalidate", state |-> NoState,
                                    result |-> NoResult]]
    /\ UNCHANGED <<cache, latest>>
    /\ UNCHANGED notCacheVars

\* delete_state: invalidate_cache, and return.
TaskDeleteInvalidate(t) ==
    /\ task[t].pc = "invalidate"
    /\ cache' = [cache EXCEPT !["A"] = NoState]
    /\ latest' = [set |-> TRUE, state |-> NoState]
    /\ task' = [task EXCEPT ![t] = [IdleTask EXCEPT !.result = Ok]]
    /\ UNCHANGED <<states, lock, cacheOps>>
    /\ UNCHANGED notCacheVars

NextCache ==
    \/ \E t \in Tasks : TaskLoadRead(t)
    \/ \E t \in Tasks : TaskLoadStore(t)
    \/ \E t \in Tasks : TaskSaveWrite(t)
    \/ \E t \in Tasks : TaskSaveStore(t)
    \/ \E t \in Tasks : TaskDeleteFiles(t)
    \/ \E t \in Tasks : TaskDeleteInvalidate(t)

SpecCache == Init /\ [][NextCache]_vars

(***************************************************************************)
(* Backups and repair of the state file (FileBackend).                     *)
(***************************************************************************)
notRepairVars == <<stateVars, pipeVars, cacheVars, laterVars>>

\* list_backups: the backups sorted by creation time, newest first.
ListBackups(b) == [k \in 1..Len(b) |-> b[Len(b) + 1 - k]]

\* validate_state on the bytes of the state file: valid, corruption_detected.
ValidateState(bytes) ==
    [valid |-> Deserialize(bytes).tag = "Ok",
     corruption_detected |-> Deserialize(bytes).tag # "Ok"]

\* restore_state of a backup with the state file present: the backup must
\* parse; the current state file is backed up and then overwritten.
RestoreState(bytes, current, b) ==
    IF Deserialize(bytes).tag # "Ok"
    THEN [ok |-> FALSE, file |-> current, backups |-> b]
    ELSE [ok |-> TRUE, file |-> bytes, backups |-> Append(b, current)]

\* Something outside the program truncates the state file to zero bytes.
CorruptStateFile ==
    /\ statePath # 0
    /\ inode[statePath] # NoBytes
    /\ inode' = [inode EXCEPT ![statePath] = NoBytes]
    /\ UNCHANGED <<statePath, tmpPath, writer, saves, lastRead>>
    /\ UNCHANGED repairVars
    /\ UNCHANGED notRepairVars

\* backup_state: the state file is copied into the backup directory.
BackupState ==
    /\ statePath # 0
    /\ Len(backups) < MaxBackups
    /\ backups' = Append(backups, inode[statePath])
    /\ UNCHANGED repairResult
    /\ UNCHANGED fileVars
    /\ UNCHANGED notRepairVars

\* repair_state on an existing state file: defensive backup, validation,
\* and on corruption the restore of the first backup that list_backups
\* returns.
RepairState ==
    /\ statePath # 0
    /\ Len(backups) < MaxBackups
    /\ LET current == inode[statePath]
           had == \E k \in DOMAIN backups : Deserialize(backups[k]).tag = "Ok"
           b1 == Append(backups, current)
           validation == ValidateState(current)
           r == RestoreState(ListBackups(b1)[1], current, b1) IN
       IF validation.valid
       THEN /\ backups' = b1
            /\ repairResult' = [called |-> TRUE, corruption_detected |-> FALSE,
                                had_valid_backup |-> had, success |-> TRUE,
                                backup_created |-> TRUE,
                                manual_intervention_required |-> FALSE,
                                restored |-> FALSE, valid_after |-> TRUE]
            /\ UNCHANGED inode
       ELSE /\ backups' = r.backups
            /\ inode' = [inode EXCEPT ![statePath] = r.file]
            /\ repairResult' = [called |-> TRUE,
                                corruption_detected |-> validation.corruption_detected,
                                had_valid_backup |-> had, success |-> r.ok,
                                backup_created |-> TRUE,
                                manual_intervention_required |-> ~r.ok,
                                restored |-> r.ok,
                                valid_after |-> Deserialize(r.file).tag = "Ok"]
    /\ UNCHANGED <<statePath, tmpPath, writer, saves, lastRead>>
    /\ UNCHANGED notRepairVars

NextRepair ==
    \/ \E w \in Workers : SaveBegin(w)
    \/ \E w \in Workers : TmpOpen(w)
    \/ \E w \in Workers : TmpWrite(w)
    \/ \E w \in Workers : TmpRename(w)
    \/ CorruptStateFile
    \/ BackupState
    \/ RepairState

SpecRepair == Init /\ [][NextRepair]_vars

(***************************************************************************)
(* Properties of the lock.                                                 *)
(***************************************************************************)
\* Worker a was granted the lock, has not released or dropped it, nobody
\* released it by force or deleted it, and it has not expired.
HeldBy(a) == holds[a].kind = "record" /\ ~(now > holds[a].expires_at)

\* Worker p is inside the load-mutate-save section of update_state_locked.
InSection(p) == Locked(p) /\ local[p].pc \in {"load", "save"}

\* C1: lock contention. While a worker holds an unexpired lock, an
\* acquire_lock by a different worker never succeeds, and an acquire_lock
\* that fails returns LockTimeout with the caller's timeout.
C1_LockContention ==
    [][\A b \in Workers :
        /\ (holds[b].kind = "none" /\ holds'[b].kind = "record")
               => \A a \in Workers \ {b} : ~HeldBy(a)
        /\ (local[b].pc = "acquire" /\ local'[b].pc = "idle" /\ local'[b].result # Ok)
               => local'[b].result = LockTimeout(local[b].timeout_ms)]_vars

\* C2: mutual exclusion. No two workers are inside the load-mutate-save
\* section of update_state_locked on the same pipeline at the same time.
C2_MutualExclusion ==
    \A a, b \in Workers : a # b => ~(InSection(a) /\ InSection(b))

\* C3: for every lock a worker w was granted and still holds unexpired, a
\* release_lock by another worker p returns LockAlreadyHeld{w} and leaves the
\* lock held by w (is_locked still reports w); release_lock when no lock
\* exists returns Ok and changes nothing.
C3_ReleaseByNonHolder ==
    [][\A p \in Workers :
        ReleaseLock(p) =>
            /\ \A w \in Workers \ {p} :
                   HeldBy(w) => /\ local'[p].result = LockAlreadyHeld(w)
                                /\ IsLockedOf(lock', now').info.worker_id = w
            /\ lock.kind = "none" => local'[p].result = Ok /\ lock' = NoLock]_vars

\* C4: the unexpired lock record of a worker that was granted the lock is
\* removed or replaced only by release_lock called with the holder's worker
\* id (directly or by the holder's dropped handle) or by force_release_lock.
C4_OnlyHolderOrForce ==
    [][(lock.kind = "record" /\ holds[lock.worker_id] = lock /\ HeldBy(lock.worker_id) /\ lock' # lock)
        => \/ ReleaseLock(lock.worker_id)
           \/ ReleaseTask(lock.worker_id)
           \/ \E p \in Workers : ForceReleaseLock(p)]_vars

(***************************************************************************)
(* Properties of the persisted state.                                      *)
(***************************************************************************)
\* C5: no lost update. Every tracker update and every heartbeat that has
\* returned Ok since the state was initialized is present in the persisted
\* state.
C5_NoLostUpdate ==
    states.exists => states.ops >= doneOps /\ states.hb >= doneHb

\* C6: the persisted version strictly increases from each save_state to the
\* next of the same pipeline.
C6_VersionStrictlyIncreases ==
    (lastWrite.written /\ lastWrite.old.exists)
        => lastWrite.new.version > lastWrite.old.version

(***************************************************************************)
(* Properties of the executor.                                             *)
(***************************************************************************)
\* The positions in attemptLog of the invocations of step i.
AttemptsOf(i) == {k \in DOMAIN attemptLog : attemptLog[k].index = i}

\* Step i was executed: its stage was invoked at least once.
Executed(i) == AttemptsOf(i) # {}

\* Step i failed terminally: step_results holds a failed StepResult for it.
FailedTerminally(i) ==
    \E j \in DOMAIN step_results :
        step_results[j].step_id = i /\ ~step_results[j].success

\* The envelope returned by the last invocation before position k that
\* succeeded, Empty if there is none.
LastOutputBefore(k) ==
    LET oks == {j \in 1..(k - 1) : attemptLog[j].ok} IN
    IF oks = {} THEN Empty
    ELSE LET j == CHOOSE x \in oks : \A y \in oks : y <= x IN
         Process(attemptLog[j].index, attemptLog[j].input)

\* C7: a step with retry_attempts = R whose stage fails on every attempt is
\* attempted exactly R+1 times and its failed StepResult has retry_count = R;
\* a step that succeeds on attempt k is not attempted again and reports
\* retry_count = k.
C7_RetryCount ==
    \A j \in DOMAIN step_results :
        LET r == step_results[j]
            A == AttemptsOf(r.step_id)
            R == steps[r.step_id + 1].retry_attempts IN
        /\ {attemptLog[k].attempt : k \in A} = 0..r.retry_count
        /\ Cardinality(A) = r.retry_count + 1
        /\ ~r.success => /\ r.retry_count = R
                         /\ Cardinality(A) = R + 1
                         /\ \A k \in A : ~attemptLog[k].ok
        /\ r.success => \A k \in A : attemptLog[k].ok <=> attemptLog[k].attempt = r.retry_count

\* C7's cases: one step failed on all of its R+1 > 1 attempts and another
\* succeeded on a later attempt than the first.
C7_Witness ==
    /\ \E j \in DOMAIN step_results :
           /\ ~step_results[j].success
           /\ step_results[j].retry_count = MaxRetry
           /\ Cardinality(AttemptsOf(step_results[j].step_id)) = MaxRetry + 1
    /\ \E j \in DOMAIN step_results :
           step_results[j].success /\ step_results[j].retry_count > 0

\* C8, as the claim states it: when a step fails terminally with
\* continue_on_error, every later step is executed; without it, no later
\* step is executed, the result is returned at once and steps_skipped is the
\* number of steps declared after the failing one.
C8_ContinueOrAbort ==
    pipeResult.returned =>
        \A i \in 0..(Len(steps) - 1) :
            FailedTerminally(i) =>
                IF steps[i + 1].continue_on_error
                THEN \A j \in (i + 1)..(Len(steps) - 1) : Executed(j)
                ELSE /\ \A j \in (i + 1)..(Len(steps) - 1) : ~Executed(j)
                     /\ pipeResult.steps_skipped = Len(steps) - (i + 1)
                     /\ ~pipeResult.success

\* C8 amended: when a step fails terminally with continue_on_error, the
\* later steps are executed up to and including the first one that fails
\* terminally without continue_on_error; without it, no later step is
\* executed, the result is returned at once and steps_skipped is the number
\* of steps declared after the failing one.
C8_ContinueUntilAbort ==
    pipeResult.returned =>
        \A i \in 0..(Len(steps) - 1) :
            FailedTerminally(i) =>
                IF steps[i + 1].continue_on_error
                THEN \A j \in (i + 1)..(Len(steps) - 1) :
                         (\A m \in (i + 1)..(j - 1) :
                              ~(FailedTerminally(m) /\ ~steps[m + 1].continue_on_error))
                             => Executed(j)
                ELSE /\ \A j \in (i + 1)..(Len(steps) - 1) : ~Executed(j)
                     /\ pipeResult.steps_skipped = Len(steps) - (i + 1)
                     /\ ~pipeResult.success

\* C8's cases: a run in which a step failed with continue_on_error and the
\* next step was executed, and which then stopped at a step failing without
\* continue_on_error, leaving a step skipped.
C8_Witness ==
    /\ pipeResult.returned
    /\ pipeResult.steps_skipped > 0
    /\ \E i \in 0..(Len(steps) - 2) :
           /\ FailedTerminally(i)
           /\ steps[i + 1].continue_on_error
           /\ Executed(i + 1)

\* C9: the returned PipelineResult has success <=> steps_failed = 0, and
\* final_data is present iff success, and then it is the envelope returned by
\* the last successful step (the initial envelope if no step succeeded).
C9_ResultShape ==
    pipeResult.returned =>
        /\ pipeResult.success <=> pipeResult.steps_failed = 0
        /\ pipeResult.final_data.present <=> pipeResult.success
        /\ pipeResult.steps_failed =
               Cardinality({j \in DOMAIN pipeResult.step_results :
                               ~pipeResult.step_results[j].success})
        /\ pipeResult.success =>
               pipeResult.final_data.value = LastOutputBefore(Len(attemptLog) + 1)

\* C9's case: a run of several steps returned success with the envelope of
\* its last step, after a retry.
C9_Witness ==
    /\ pipeResult.returned
    /\ pipeResult.success
    /\ Len(pipeResult.step_results) >= 2
    /\ pipeResult.final_data.value # Empty
    /\ \E j \in DOMAIN pipeResult.step_results : pipeResult.step_results[j].retry_count > 0

\* C10: steps are executed one at a time in declared order, and the input of
\* every invocation is the envelope returned by the most recent earlier
\* step that succeeded (Empty if none): a success overwrites the current
\* envelope, a failure with continue_on_error leaves it unchanged.
C10_EnvelopeThreading ==
    /\ \A k \in DOMAIN attemptLog :
           /\ attemptLog[k].input = LastOutputBefore(k)
           /\ k > 1 => \/ attemptLog[k].index = attemptLog[k - 1].index + 1
                       \/ /\ attemptLog[k].index = attemptLog[k - 1].index
                          /\ ~attemptLog[k - 1].ok
    /\ pipePc = "running" => current_data = LastOutputBefore(Len(attemptLog) + 1)

\* C10's case: a step is invoked with the envelope of an earlier step after
\* the step between them failed with continue_on_error.
C10_Witness ==
    \E k \in DOMAIN attemptLog :
        /\ k > 2
        /\ attemptLog[k].input # Empty
        /\ ~attemptLog[k - 1].ok
        /\ attemptLog[k - 1].index < attemptLog[k].index

\* C11: with timeout_seconds set, the timeout bounds each single attempt: an
\* attempt that runs past it is aborted and is a failed attempt, the
\* remaining retries still run, each with a timeout of its own, and a
\* timeout never ends the step while attempts remain.
C11_TimeoutPerAttempt ==
    /\ \A k \in DOMAIN attemptLog :
           LET e == attemptLog[k]
               st == steps[e.index + 1] IN
           st.timeout_seconds # NoTimeout =>
               /\ e.elapsed > st.timeout_seconds => ~e.ok
               /\ e.elapsed <= st.timeout_seconds + 1
               /\ (~e.ok /\ e.attempt < st.retry_attempts) =>
                      IF k < Len(attemptLog)
                      THEN /\ attemptLog[k + 1].index = e.index
                           /\ attemptLog[k + 1].attempt = e.attempt + 1
                      ELSE /\ pipePc = "running"
                           /\ index = e.index
                           /\ attempt = e.attempt + 1
                           /\ attemptTime <= st.timeout_seconds + 1
    /\ \A j \in DOMAIN step_results :
           ~step_results[j].success =>
               Cardinality(AttemptsOf(step_results[j].step_id))
                   = steps[step_results[j].step_id + 1].retry_attempts + 1

\* C11's case: an attempt was aborted by the timeout and a later attempt of
\* the same step ran for its full timeout and succeeded.
C11_Witness ==
    \E k \in DOMAIN attemptLog :
        /\ k > 1
        /\ attemptLog[k].ok
        /\ attemptLog[k].elapsed = steps[attemptLog[k].index + 1].timeout_seconds
        /\ attemptLog[k].elapsed > 0
        /\ attemptLog[k - 1].index = attemptLog[k].index
        /\ attemptLog[k - 1].elapsed > steps[attemptLog[k].index + 1].timeout_seconds

(***************************************************************************)
(* Properties of the state file.                                           *)
(***************************************************************************)
\* C12: with atomic writes, whatever the interleaving of save_state calls by
\* writers sharing the temporary path, a read of the state file observes a
\* complete file: load_state yields a valid state or PipelineNotFound.
C12_NoPartialFile ==
    lastRead.tag \in {"", "Ok", "PipelineNotFound"}

\* What a load_state that starts now through the backend of "A" returns.
NextLoadReturns == IF cache["A"].exists THEN cache["A"] ELSE states

\* C13: read-after-write through the cache. Once a save_state(s) has
\* returned, the next load_state through the same backend returns s; once a
\* delete_state has returned, it returns PipelineNotFound: with no call in
\* progress, a load returns what the latest local save or delete left.
C13_ReadAfterWrite ==
    (latest.set /\ \A t \in Tasks : task[t].pc = "idle")
        => NextLoadReturns = latest.state

\* C14: repair from backup. When the state file is corrupted and a valid
\* backup made earlier exists, repair_state creates a defensive backup,
\* restores the most recent earlier backup and returns success = true with
\* manual_intervention_required = false, and the state file then loads.
C14_RepairFromBackup ==
    (repairResult.called /\ repairResult.corruption_detected
        /\ repairResult.had_valid_backup)
        => /\ repairResult.backup_created
           /\ repairResult.restored
           /\ repairResult.success
           /\ ~repairResult.manual_intervention_required
           /\ repairResult.valid_after

(***************************************************************************)
(* Properties of lock expiry and of the acquisition timeout.               *)
(***************************************************************************)
\* The lock record has expired.
ExpiredLock == lock.kind = "record" /\ now > lock.expires_at

\* C15: lock expiry is self-healing. An is_locked call on a lock whose
\* expires_at is earlier than now reports unlocked and removes the record,
\* and an acquire_lock that finds no record (and, on the file backend, the
\* OS lock free) or an expired one is granted the lock, never timed out.
C15_ExpirySelfHeals ==
    [][\A p \in Workers :
        /\ (IsLocked(p) /\ ExpiredLock)
               => /\ local'[p].result = Ok
                  /\ lock' = NoLock
        /\ (MemoryAcquireProbe(p) /\ (lock.kind = "none" \/ ExpiredLock))
               => /\ holds'[p].kind = "record"
                  /\ lock' = holds'[p]
                  /\ local'[p].result = Ok
        /\ (FileAcquireOpen(p) /\ (lock.kind = "none" \/ ExpiredLock) /\ flock = "")
               => local'[p].pc = "acquire_write"]_vars

\* C15's case: a worker was granted a lock, the lock expired, is_locked
\* reported unlocked and the record is gone.
C15_Witness ==
    \E p, w \in Workers :
        /\ holds[w].kind = "record"
        /\ now > holds[w].expires_at
        /\ lock = NoLock
        /\ local[p].pc = "idle"
        /\ local[p].result = Ok

\* C16: acquire_lock with timeout_ms = 0 while another worker holds the
\* lock unexpired returns LockTimeout{0} at its first probe, without
\* sleeping and probing again.
C16_ZeroTimeout ==
    [][\A p \in Workers :
        (/\ MemoryAcquireProbe(p) \/ FileAcquireOpen(p)
         /\ local[p].timeout_ms = 0
         /\ \E a \in Workers \ {p} : HeldBy(a))
            => local'[p].result = LockTimeout(0) /\ local'[p].pc = "idle"]_vars

\* The lock record is worker p's.
LockOf(p) == lock.kind = "record" /\ lock.worker_id = p

notRetryVars ==
    <<stateVars, pipeVars, fileVars, cacheVars, repairVars, observerVars, resolverVars,
      moreVars>>

\* The largest max_retries a manager is configured with.
MaxMaxRetries == 4
\* The errors the backend's save_state returns.
SaveErrors == {"IoError", "SerializationError"}
SaveOk == [kind |-> "Ok"]
SaveErr(e) == [kind |-> "Err", error |-> e]

\* 2^n.
RECURSIVE Pow2(_)
Pow2(n) == IF n = 0 THEN 1 ELSE 2 * Pow2(n - 1)

\* delay_ms = 100 * (1 << retries), retries already incremented.
DelayMs(r) == 100 * Pow2(r)

\* save_state is called on a manager configured with m retries.
CallSaveState ==
    /\ retryPc = "idle"
    /\ \E m \in 0..MaxMaxRetries : max_retries' = m
    /\ retries' = 0
    /\ retryPc' = "operation"
    /\ UNCHANGED <<operationLog, sleeps, saveResult>>
    /\ UNCHANGED notRetryVars

\* operation() returned Ok: retry_operation returns it.
OperationOk ==
    /\ retryPc = "operation"
    /\ operationLog' = Append(operationLog, SaveOk)
    /\ saveResult' = SaveOk
    /\ retryPc' = "returned"
    /\ UNCHANGED <<max_retries, retries, sleeps>>
    /\ UNCHANGED notRetryVars

\* operation() returned Err(e) and retries reached max_retries: Err(e).
OperationErrReturn ==
    /\ retryPc = "operation"
    /\ retries + 1 >= max_retries
    /\ \E e \in SaveErrors :
           /\ operationLog' = Append(operationLog, SaveErr(e))
           /\ saveResult' = SaveErr(e)
    /\ retries' = retries + 1
    /\ retryPc' = "returned"
    /\ UNCHANGED <<max_retries, sleeps>>
    /\ UNCHANGED notRetryVars

\* operation() returned Err(e) and retries are left: sleep delay_ms.
OperationErrSleep ==
    /\ retryPc = "operation"
    /\ retries + 1 < max_retries
    /\ \E e \in SaveErrors : operationLog' = Append(operationLog, SaveErr(e))
    /\ retries' = retries + 1
    /\ sleeps' = Append(sleeps, DelayMs(retries + 1))
    /\ retryPc' = "sleeping"
    /\ UNCHANGED <<max_retries, saveResult>>
    /\ UNCHANGED notRetryVars

\* The sleep is over: the loop calls the operation again.
SleepOver ==
    /\ retryPc = "sleeping"
    /\ retryPc' = "operation"
    /\ UNCHANGED <<max_retries, retries, operationLog, sleeps, saveResult>>
    /\ UNCHANGED notRetryVars

NextRetry ==
    \/ CallSaveState
    \/ OperationOk
    \/ OperationErrReturn
    \/ OperationErrSleep
    \/ SleepOver

SpecRetry == Init /\ [][NextRetry]_vars

\* C18: a save_state whose backend save keeps failing makes max_retries
\* retries after the first failure (max_retries + 1 calls in all), sleeps
\* 100 ms, 200 ms, 400 ms, ... before them and returns the last backend
\* error; a save that succeeds returns Ok and makes no further call.
C18_RetryPolicy ==
    retryPc = "returned" =>
        /\ saveResult = operationLog[Len(operationLog)]
        /\ \A k \in 1..(Len(operationLog) - 1) : operationLog[k].kind = "Err"
        /\ saveResult.kind = "Err" =>
               /\ Len(operationLog) = max_retries + 1
               /\ Len(sleeps) = max_retries
        /\ \A k \in 1..Len(sleeps) : sleeps[k] = 100 * Pow2(k - 1)

(***************************************************************************)
(* ObservableStateManager: save_state_observed and add_error_observed.     *)
(***************************************************************************)
notObserverVars ==
    <<stateVars, pipeVars, fileVars, cacheVars, repairVars, retryVars, resolverVars,
      moreVars>>

\* Observers registered with add_observer.
MaxObservers == 2
\* Observed calls made.
MaxObservedCalls == 2

\* The errors of the write behind each call: save_state fails in the
\* backend; add_error is an update_state, whose load fails as well.
WriteErrors(op) ==
    IF op = "add_error_observed" THEN SaveErrors \cup {"PipelineNotFound"} ELSE SaveErrors

\* The callback each call invokes on an observer.
CallbackOf(op) == IF op = "save_state_observed" THEN "on_state_change" ELSE "on_error"

\* One observer callback: which observer, which event, for which call, and
\* whether the backend write of that call had succeeded when it ran.
Callback(o, op, c, w) ==
    [observer |-> o, event |-> CallbackOf(op), call |-> c, written |-> (w = "Ok")]

\* save_state_observed: the save comes first.
CallSaveStateObserved ==
    /\ obsPc \in {"idle", "returned"}
    /\ obsCalls < MaxObservedCalls
    /\ obsCalls' = obsCalls + 1
    /\ obsOp' = "save_state_observed"
    /\ obsPc' = "write"
    /\ obsNext' = 1
    /\ obsWrite' = "pending"
    /\ obsResult' = NoSaveResult
    /\ UNCHANGED callbacks
    /\ UNCHANGED notObserverVars

\* add_error_observed: the loop over the observers comes first.
CallAddErrorObserved ==
    /\ obsPc \in {"idle", "returned"}
    /\ obsCalls < MaxObservedCalls
    /\ obsCalls' = obsCalls + 1
    /\ obsOp' = "add_error_observed"
    /\ obsPc' = "notify"
    /\ obsNext' = 1
    /\ obsWrite' = "pending"
    /\ obsResult' = NoSaveResult
    /\ UNCHANGED callbacks
    /\ UNCHANGED notObserverVars

\* The write succeeds: save_state_observed goes on to notify,
\* add_error_observed returns what add_error returned.
ObservedWriteOk ==
    /\ obsPc = "write"
    /\ obsWrite' = "Ok"
    /\ IF obsOp = "save_state_observed"
       THEN obsPc' = "notify" /\ UNCHANGED obsResult
       ELSE obsPc' = "returned" /\ obsResult' = SaveOk
    /\ UNCHANGED <<obsOp, obsNext, obsCalls, callbacks>>
    /\ UNCHANGED notObserverVars

\* The write fails: both calls return the error.
ObservedWriteErr ==
    /\ obsPc = "write"
    /\ obsWrite' = "Err"
    /\ \E e \in WriteErrors(obsOp) : obsResult' = SaveErr(e)
    /\ obsPc' = "returned"
    /\ UNCHANGED <<obsOp, obsNext, obsCalls, callbacks>>
    /\ UNCHANGED notObserverVars

\* One turn of "for observer in &self.observers".
NotifyObserver ==
    /\ obsPc = "notify"
    /\ obsNext <= MaxObservers
    /\ callbacks' = Append(callbacks, Callback(obsNext, obsOp, obsCalls, obsWrite))
    /\ obsNext' = obsNext + 1
    /\ UNCHANGED <<obsPc, obsOp, obsWrite, obsCalls, obsResult>>
    /\ UNCHANGED notObserverVars

\* The loop is over: save_state_observed returns Ok, add_error_observed
\* calls add_error.
NotifyDone ==
    /\ obsPc = "notify"
    /\ obsNext > MaxObservers
    /\ IF obsOp = "save_state_observed"
       THEN obsPc' = "returned" /\ obsResult' = SaveOk
       ELSE obsPc' = "write" /\ UNCHANGED obsResult
    /\ UNCHANGED <<obsOp, obsNext, obsWrite, obsCalls, callbacks>>
    /\ UNCHANGED notObserverVars

NextObserver ==
    \/ CallSaveStateObserved
    \/ CallAddErrorObserved
    \/ ObservedWriteOk
    \/ ObservedWriteErr
    \/ NotifyObserver
    \/ NotifyDone

SpecObserver == Init /\ [][NextObserver]_vars

\* C19: an observer callback of save_state_observed or add_error_observed
\* runs only after the backend write of that call has succeeded; a call
\* whose write failed has invoked no callback.
C19_NotifyAfterWrite ==
    /\ \A k \in 1..Len(callbacks) : callbacks[k].written
    /\ (obsPc = "returned" /\ obsResult.kind = "Err") =>
           \A k \in 1..Len(callbacks) : callbacks[k].call # obsCalls

(***************************************************************************)
(* ConfigResolver::resolve_env_vars.  A string is a sequence of pieces:    *)
(* a piece is a character that is no part of a reference, or the whole     *)
(* text of one reference ${NAME} or ${NAME:-DEFAULT}.                      *)
(***************************************************************************)
notResolverVars ==
    <<stateVars, pipeVars, fileVars, cacheVars, repairVars, retryVars, observerVars,
      moreVars>>

\* The longest string resolved.
MaxTextLen == 3

\* A character outside references.
Literal(c) == [lit |-> c, name |-> "", has_default |-> FALSE, default |-> <<>>]
\* The text ${NAME}.
EnvRef(n) == [lit |-> "", name |-> n, has_default |-> FALSE, default |-> <<>>]
\* The text ${NAME:-DEFAULT}; DEFAULT holds no "}" and so no reference.
EnvRefDefault(n, d) == [lit |-> "", name |-> n, has_default |-> TRUE, default |-> d]

Pieces ==
    {Literal("x")}
        \cup {EnvRef(n) : n \in Names}
        \cup {EnvRefDefault(n, <<Literal("d")>>) : n \in Names}
Texts == UNION {[1..k -> Pieces] : k \in 0..MaxTextLen}

\* Values given to cache_env_var and to the process environment; a value
\* is any string, the text of a reference included.
CacheValues == {<<Literal("c")>>}
EnvironValues == {<<Literal("e")>>, <<EnvRef("B")>>}

ResolvedOk(v) == [kind |-> "Ok", value |-> v, name |-> ""]
\* anyhow!("Environment variable '{}' not found", var_name)
EnvVarNotFound(n) == [kind |-> "Err", value |-> <<>>, name |-> n]

\* env_regex.captures_iter(text): the references of the text, in order.
IsRef(piece) == piece.name # ""
Captures(t) == SelectSeq(t, IsRef)

\* str::replace(full_match, value): every occurrence is replaced.
RECURSIVE StrReplace(_, _, _)
StrReplace(s, full_match, value) ==
    IF s = <<>> THEN <<>>
    ELSE (IF Head(s) = full_match THEN value ELSE <<Head(s)>>)
             \o StrReplace(Tail(s), full_match, value)

\* The value of one reference: the cache, then env::var, then the default.
ValueOf(cap, cached, env) ==
    IF cached[cap.name].present THEN cached[cap.name]
    ELSE IF env[cap.name].present THEN env[cap.name]
    ELSE IF cap.has_default THEN Some(cap.default)
    ELSE None

\* The loop over the captures, from capture k on, on the result so far.
RECURSIVE ResolveFrom(_, _, _, _, _)
ResolveFrom(result, caps, k, cached, env) ==
    IF k > Len(caps) THEN ResolvedOk(result)
    ELSE LET value == ValueOf(caps[k], cached, env)
         IN  IF ~value.present THEN EnvVarNotFound(caps[k].name)
             ELSE ResolveFrom(StrReplace(result, caps[k], value.value), caps, k + 1,
                              cached, env)

resolve_env_vars(t, cached, env) == ResolveFrom(t, Captures(t), 1, cached, env)

\* ConfigResolver::cache_env_var
CacheEnvVar ==
    /\ resPc = "idle"
    /\ \E n \in Names, v \in CacheValues :
           env_vars' = [env_vars EXCEPT ![n] = Some(v)]
    /\ UNCHANGED <<environ, resPc, text, resolved>>
    /\ UNCHANGED notResolverVars

\* A variable is set in the process environment.
SetVar ==
    /\ resPc = "idle"
    /\ \E n \in Names, v \in EnvironValues :
           environ' = [environ EXCEPT ![n] = Some(v)]
    /\ UNCHANGED <<env_vars, resPc, text, resolved>>
    /\ UNCHANGED notResolverVars

\* resolve_env_vars is called with a string and returns.
ResolveEnvVars ==
    /\ resPc = "idle"
    /\ \E t \in Texts :
           /\ text' = t
           /\ resolved' = resolve_env_vars(t, env_vars, environ)
    /\ resPc' = "returned"
    /\ UNCHANGED <<env_vars, environ>>
    /\ UNCHANGED notResolverVars

NextResolver ==
    \/ CacheEnvVar
    \/ SetVar
    \/ ResolveEnvVars

SpecResolver == Init /\ [][NextResolver]_vars

\* The references of the text that have no value and no default.
Missing(t) ==
    {k \in 1..Len(t) : IsRef(t[k]) /\ ~ValueOf(t[k], env_vars, environ).present}

\* The text with each reference replaced by its own value.
RECURSIVE Substituted(_)
Substituted(t) ==
    IF t = <<>> THEN <<>>
    ELSE (IF IsRef(Head(t)) THEN ValueOf(Head(t), env_vars, environ).value
          ELSE <<Head(t)>>) \o Substituted(Tail(t))

\* C20: every reference ${NAME} or ${NAME:-DEFAULT} of the string is
\* replaced by the cached value of NAME, else by its value in the process
\* environment, else by DEFAULT; when a reference has no value and no
\* default the call fails with the not-found error of that name and
\* returns no string.
C20_EnvReferences ==
    resPc = "returned" =>
        IF Missing(text) = {}
        THEN resolved = ResolvedOk(Substituted(text))
        ELSE /\ resolved.kind = "Err"
             /\ \E k \in Missing(text) : resolved.name = text[k].name

(***************************************************************************)
(* Stage-output references ${stage_id.seg1.seg2...}: the navigation of     *)
(* ConfigResolver (the executor's resolver, over serde_json values) and of *)
(* PipelineContext (over serde_yaml values).  No segment is "metadata",    *)
(* and step_metadata is empty.                                             *)
(***************************************************************************)
\* The longest path of a reference.
MaxPathLen == 3

\* A JSON / YAML value: a scalar with its text form, an array, an object.
Scalar(t) == [kind |-> "scalar", text |-> t, items |-> <<>>, fields |-> <<>>]
Array(xs) == [kind |-> "array", text |-> "", items |-> xs, fields |-> <<>>]
Object(f) == [kind |-> "object", text |-> "", items |-> <<>>, fields |-> f]
\* Option::None of a lookup.
Absent == [kind |-> "absent", text |-> "", items |-> <<>>, fields |-> <<>>]

\* The documents stages record: {"a": ["x", {"b": 7}], "b": "t"} and ["y", "z"].
DocumentNames == {"nested", "list"}
DocumentOf(d) ==
    IF d = "nested"
    THEN Object([k \in {"a", "b"} |->
             IF k = "a"
             THEN Array(<<Scalar("x"), Object([j \in {"b"} |-> Scalar("7")])>>)
             ELSE Scalar("t")])
    ELSE Array(<<Scalar("y"), Scalar("z")>>)

\* Segments matching [a-zA-Z0-9_]+ and the paths made of them.
Segments == {"a", "b", "0", "1"}
Paths == UNION {[1..k -> Segments] : k \in 1..MaxPathLen}

\* part.parse::<usize>()
Digits == <<"0", "1">>
IsNumeric(seg) == \E i \in 1..Len(Digits) : Digits[i] = seg
ParseUsize(seg) == (CHOOSE i \in 1..Len(Digits) : Digits[i] = seg) - 1

\* serde_json::Value::get with a &str index: a key lookup in an object,
\* None on every other value.
JsonGet(v, field) ==
    IF v.kind = "object" /\ field \in DOMAIN v.fields THEN v.fields[field] ELSE Absent

\* One turn of PipelineContext's navigation: Mapping::get on a mapping,
\* parse::<usize> and seq.get on a sequence, None otherwise.
YamlGet(v, part) ==
    IF v.kind = "object"
    THEN (IF part \in DOMAIN v.fields THEN v.fields[part] ELSE Absent)
    ELSE IF v.kind = "array"
    THEN (IF IsNumeric(part) /\ ParseUsize(part) < Len(v.items)
          THEN v.items[ParseUsize(part) + 1] ELSE Absent)
    ELSE Absent

RefErr(what) == [kind |-> "Err", value |-> <<>>, name |-> what]

\* The leaf as a string: a scalar is its text, a structured value is the
\* text its serializer writes.
LeafText(v, serializer) ==
    IF v.kind = "scalar" THEN <<Literal(v.text)>> ELSE <<Literal(serializer)>>

\* ConfigResolver::extract_field_from_output on OxiData::Json.
RECURSIVE extract_field_from_output(_, _)
extract_field_from_output(current, fields) ==
    IF fields = <<>> THEN ResolvedOk(LeafText(current, "json"))
    ELSE LET next == JsonGet(current, Head(fields))
         IN  IF next.kind = "absent" THEN RefErr("field not found")
             ELSE extract_field_from_output(next, Tail(fields))

\* ConfigResolver::resolve_step_references, for one reference with a path.
ResolverLookup(stage, path) ==
    IF step_outputs[stage] = NoDocument THEN RefErr("step output not found")
    ELSE extract_field_from_output(DocumentOf(step_outputs[stage]), path)

\* The loop "for part in &parts" of resolve_property_path.
RECURSIVE NavigateYaml(_, _)
NavigateYaml(current, parts) ==
    IF parts = <<>> \/ current.kind = "absent" THEN current
    ELSE NavigateYaml(YamlGet(current, Head(parts)), Tail(parts))

\* PipelineContext::resolve_property_path
resolve_property_path(stage, path) ==
    IF step_outputs[stage] = NoDocument THEN RefErr("step not found")
    ELSE LET leaf == NavigateYaml(DocumentOf(step_outputs[stage]), path)
         IN  IF leaf.kind = "absent" THEN RefErr("property path not found")
             ELSE ResolvedOk(LeafText(leaf, "yaml"))

\* add_step_output: a stage's output is recorded.
AddStepOutput ==
    /\ refPc = "idle"
    /\ \E s \in StageIds, d \in DocumentNames :
           step_outputs' = [step_outputs EXCEPT ![s] = d]
    /\ UNCHANGED <<refPc, refStage, refPath, resolverResult, contextResult>>
    /\ UNCHANGED notRefVars

\* One reference ${stage.path} is resolved by both resolvers.
ResolveReference ==
    /\ refPc = "idle"
    /\ \E s \in StageIds, path \in Paths :
           /\ refStage' = s
           /\ refPath' = path
           /\ resolverResult' = ResolverLookup(s, path)
           /\ contextResult' = resolve_property_path(s, path)
    /\ refPc' = "returned"
    /\ UNCHANGED step_outputs
    /\ UNCHANGED notRefVars

NextReference ==
    \/ AddStepOutput
    \/ ResolveReference

SpecReference == Init /\ [][NextReference]_vars

\* The navigation the references are specified with: a key lookup in an
\* object, an index lookup by a numeric segment in an array.
RECURSIVE Navigated(_, _)
Navigated(v, path) ==
    IF path = <<>> \/ v.kind = "absent" THEN v
    ELSE Navigated(
             (IF v.kind = "object" /\ Head(path) \in DOMAIN v.fields
              THEN v.fields[Head(path)]
              ELSE IF v.kind = "array" /\ IsNumeric(Head(path))
                      /\ ParseUsize(Head(path)) < Len(v.items)
              THEN v.items[ParseUsize(Head(path)) + 1]
              ELSE Absent),
             Tail(path))

\* What a resolver's answer must be for the reference resolved last.
ConformsToNavigation(result) ==
    IF step_outputs[refStage] = NoDocument THEN result.kind = "Err"
    ELSE LET leaf == Navigated(DocumentOf(step_outputs[refStage]), refPath)
         IN  IF leaf.kind = "absent" THEN result.kind = "Err"
             ELSE /\ result.kind = "Ok"
                  /\ leaf.kind = "scalar" => result.value = <<Literal(leaf.text)>>

\* C21: a reference ${stage_id.seg1.seg2...} is resolved by navigating the
\* recorded output of stage_id (key lookup in an object, index lookup by a
\* numeric segment in an array) and stringifying the leaf; a missing stage,
\* missing field, out-of-range index or wrong container makes it fail.
C21_StageReference ==
    refPc = "returned" =>
        /\ ConformsToNavigation(resolverResult)
        /\ ConformsToNavigation(contextResult)

(***************************************************************************)
(* Strings with several references: ConfigResolver::                       *)
(* resolve_string_references (environment references, then step            *)
(* references, each by str::replace on the result) and PipelineContext::   *)
(* resolve_step_references (replace_range from right to left).  The text   *)
(* of a step reference is a piece outside the environment references.      *)
(***************************************************************************)
\* The step references that occur: their text, stage and path.
StepRefs == [t \in {"${reader.b}"} |-> [stage |-> "reader", path |-> <<"b">>]]
IsStepRef(piece) == piece.lit \in DOMAIN StepRefs
StepRefValue(piece) == ResolverLookup(StepRefs[piece.lit].stage, StepRefs[piece.lit].path)
ContextRefValue(piece) ==
    resolve_property_path(StepRefs[piece.lit].stage, StepRefs[piece.lit].path)

SubPieces == {Literal("x"), EnvRef("A"), Literal("${reader.b}")}
SubTexts == UNION {[1..k -> SubPieces] : k \in 0..MaxTextLen}

\* ConfigResolver::resolve_step_references: the loop over the captures of
\* the text it was given, from capture k on, on the result so far.
RECURSIVE StepRefsFrom(_, _, _)
StepRefsFrom(result, caps, k) ==
    IF k > Len(caps) THEN ResolvedOk(result)
    ELSE LET value == StepRefValue(caps[k])
         IN  IF value.kind = "Err" THEN value
             ELSE StepRefsFrom(StrReplace(result, caps[k], value.value), caps, k + 1)

\* ConfigResolver::resolve_string_references
resolve_string_references(t) ==
    LET afterEnv == resolve_env_vars(t, env_vars, environ)
    IN  IF afterEnv.kind = "Err" THEN afterEnv
        ELSE StepRefsFrom(afterEnv.value, SelectSeq(afterEnv.value, IsStepRef), 1)

\* PipelineContext::resolve_step_references: every match of the input is
\* resolved, then each span is replaced by its own value, right to left.
RECURSIVE ReplaceRanges(_)
ReplaceRanges(t) ==
    IF t = <<>> THEN <<>>
    ELSE ReplaceRanges(SubSeq(t, 1, Len(t) - 1))
             \o (IF IsStepRef(t[Len(t)]) THEN ContextRefValue(t[Len(t)]).value
                 ELSE <<t[Len(t)]>>)
context_resolve_step_references(t) ==
    IF \E k \in 1..Len(t) : IsStepRef(t[k]) /\ ContextRefValue(t[k]).kind = "Err"
    THEN RefErr("property path not found")
    ELSE ResolvedOk(ReplaceRanges(t))

\* A variable of the process environment holds the text of a step reference.
SetVarToReference ==
    /\ subPc = "idle"
    /\ \E n \in Names, r \in DOMAIN StepRefs :
           environ' = [environ EXCEPT ![n] = Some(<<Literal(r)>>)]
    /\ UNCHANGED <<env_vars, resPc, text, resolved>>
    /\ UNCHANGED <<earlierVarsButResolver, moreVars>>

\* A string is resolved by both resolvers.
ResolveStringReferences ==
    /\ subPc = "idle"
    /\ \E t \in SubTexts :
           /\ subText' = t
           /\ subResolver' = resolve_string_references(t)
           /\ subContext' = context_resolve_step_references(t)
    /\ subPc' = "returned"
    /\ UNCHANGED notSubVars

NextSubstitution ==
    \/ SetVar
    \/ SetVarToReference
    \/ AddStepOutput
    \/ ResolveStringReferences

SpecSubstitution == Init /\ [][NextSubstitution]_vars

\* The value of each piece of a string taken on its own: a reference is
\* replaced by its value, any other piece stays.
PieceValue(piece, withEnv) ==
    IF IsStepRef(piece) THEN StepRefValue(piece).value
    ELSE IF withEnv /\ IsRef(piece) THEN ValueOf(piece, env_vars, environ).value
    ELSE <<piece>>
RECURSIVE EachReplaced(_, _)
EachReplaced(t, withEnv) ==
    IF t = <<>> THEN <<>>
    ELSE PieceValue(Head(t), withEnv) \o EachReplaced(Tail(t), withEnv)

\* The answers of both resolvers agree with the string and the values.
SubstitutedIndependently ==
    /\ (\A k \in 1..Len(subText) : ~IsRef(subText[k]) /\ ~IsStepRef(subText[k]))
           => subResolver = ResolvedOk(subText) /\ subContext = ResolvedOk(subText)
    /\ subResolver.kind = "Ok" => subResolver.value = EachReplaced(subText, TRUE)
    /\ subContext.kind = "Ok" => subContext.value = EachReplaced(subText, FALSE)

\* C22: resolving a string without references returns it unchanged, and
\* resolving a string with several references returns the string in which
\* each reference is replaced by its own value: a substituted value is not
\* scanned again and replacing one reference alters no other.
C22_IndependentSubstitution ==
    [][ResolveStringReferences => SubstitutedIndependently']_vars

(***************************************************************************)
(* Oxi::process: the checks made before process_data is invoked.           *)
(***************************************************************************)
\* The largest array given to a stage and the largest max_batch_size.
MaxItems == 3
MaxBatchLimit == 2

Envelopes ==
    {Envelope("Json", TRUE, n, large, valid, conforms) :
         n \in 0..MaxItems, large \in BOOLEAN, valid \in BOOLEAN, conforms \in BOOLEAN}
        \cup {Envelope(t, FALSE, 0, FALSE, TRUE, TRUE) : t \in OxiDataTypes}

\* Data::is_batch and Data::batch_size
is_batch(input) == input.type = "Json" /\ input.array /\ input.len > 1
batch_size(input) == IF input.type = "Json" /\ input.array THEN input.len ELSE 1

\* "!limits.supported_input_types.is_empty() && !contains(&input_type)" negated.
TypeSupported(l, input) ==
    l.supported_input_types = {} \/ input.type \in l.supported_input_types

\* The outcome of process: the first check that fails, or the processing.
process(l, input) ==
    IF ~TypeSupported(l, input) THEN "UnsupportedInputType"
    ELSE IF ~input.valid THEN "ValidationError"
    ELSE IF l.max_memory_mb.set /\ input.large THEN "MemoryLimitExceeded"
    ELSE IF l.max_batch_size.set /\ is_batch(input)
            /\ batch_size(input) > l.max_batch_size.n
    THEN "BatchSizeExceeded"
    ELSE IF ~input.conforms THEN "SchemaValidationError"
    ELSE "Ok"

\* A stage is built with its processing limits.
NewOxi ==
    /\ oxiPc = "new"
    /\ \E types \in SUBSET OxiDataTypes,
          b \in {Unlimited} \cup {Limit(n) : n \in 0..MaxBatchLimit},
          m \in {Unlimited, Limit(1)} :
           limits' = [max_batch_size |-> b, max_memory_mb |-> m,
                      supported_input_types |-> types]
    /\ oxiPc' = "ready"
    /\ UNCHANGED <<oxiInput, processed, oxiResult>>
    /\ UNCHANGED notOxiVars

\* process(input, config) runs and returns.
OxiProcess ==
    /\ oxiPc = "ready"
    /\ \E input \in Envelopes :
           /\ oxiInput' = input
           /\ oxiResult' = process(limits, input)
           /\ processed' = (process(limits, input) = "Ok")
    /\ oxiPc' = "returned"
    /\ UNCHANGED limits
    /\ UNCHANGED notOxiVars

NextOxi ==
    \/ NewOxi
    \/ OxiProcess

SpecOxi == Init /\ [][NextOxi]_vars

\* The input passes the checks made before the batch-size check.
ReachesBatchCheck ==
    /\ TypeSupported(limits, oxiInput)
    /\ oxiInput.valid
    /\ ~(limits.max_memory_mb.set /\ oxiInput.large)

\* C23: with max_batch_size = N, N >= 0, a JSON array of length N passes the
\* batch-size check and every JSON array longer than N is rejected with
\* the batch-size failure, process_data not being invoked.
C23_BatchSizeLimit ==
    (/\ oxiPc = "returned"
     /\ limits.max_batch_size.set
     /\ oxiInput.type = "Json" /\ oxiInput.array
     /\ ReachesBatchCheck) =>
        /\ oxiInput.len = limits.max_batch_size.n => oxiResult # "BatchSizeExceeded"
        /\ oxiInput.len > limits.max_batch_size.n =>
               oxiResult = "BatchSizeExceeded" /\ ~processed

\* C24: an input whose variant is not in supported_input_types, the empty
\* list included, fails with the unsupported-input-type error and
\* process_data is not invoked.
C24_InputTypeCheck ==
    (oxiPc = "returned" /\ oxiInput.type \notin limits.supported_input_types) =>
        oxiResult = "UnsupportedInputType" /\ ~processed

(***************************************************************************)
(* PipelineTracker over one StateManager whose load_state returns the      *)
(* persisted state.  Every mutation runs inside update_state_locked and    *)
(* is one step; it fails when no state is persisted.                       *)
(***************************************************************************)
\* Tracker operations made and run ids handed out.
MaxTrackerOps == 3
MaxRuns == 2

\* The error of a StepResult: None is "", Some(message) is the message.
TrackedResults ==
    {TrackedResult(i, TRUE, "", n, d) : i \in StepIds, n \in {0, 2, 3}, d \in {0, 100}}
        \cup {TrackedResult(i, FALSE, e, n, d) :
                  i \in StepIds, e \in {"", "boom"}, n \in {0, 2, 3}, d \in {0, 100}}

CanTrack == trackerOps < MaxTrackerOps
Called(op, r, size) ==
    /\ trackerOps' = trackerOps + 1
    /\ lastCall' = [op |-> op, before |-> tstate, result |-> r, size |-> size]

\* PipelineTracker::new: a fresh run_id, and initialize_state saves a
\* Running state.
TrackerNew ==
    /\ CanTrack /\ nextRunId < MaxRuns
    /\ nextRunId' = nextRunId + 1
    /\ tstate' = [NoTrackerState EXCEPT !.exists = TRUE, !.status = "Running",
                                        !.run_id = nextRunId + 1]
    /\ Called("new", NoTrackedResult, 0)
    /\ UNCHANGED <<canResume, resumed>>
    /\ UNCHANGED notTrackerVars

\* StateManager::initialize_pipeline: PipelineState::new is Pending.
InitializePipeline ==
    /\ CanTrack /\ nextRunId < MaxRuns
    /\ nextRunId' = nextRunId + 1
    /\ tstate' = [NoTrackerState EXCEPT !.exists = TRUE, !.run_id = nextRunId + 1]
    /\ Called("initialize_pipeline", NoTrackedResult, 0)
    /\ UNCHANGED <<canResume, resumed>>
    /\ UNCHANGED notTrackerVars

\* start_step
StartStep ==
    /\ CanTrack /\ tstate.exists
    /\ \E i \in StepIds :
           tstate' = [tstate EXCEPT !.current_step = i,
                                    !.step_states[i] = [NoStep EXCEPT !.status = "Running"]]
    /\ Called("start_step", NoTrackedResult, 0)
    /\ UNCHANGED <<nextRunId, canResume, resumed>>
    /\ UNCHANGED notTrackerVars

\* The step's entry after complete_step, when step_states holds one.
CompletedStep(step, r) ==
    IF step.status = "absent" THEN step
    ELSE [step EXCEPT
              !.status = IF r.success THEN "Completed" ELSE "Failed",
              !.error = IF r.success THEN ""
                        ELSE IF r.error = "" THEN "Unknown error" ELSE r.error,
              !.processing_time_ms = r.duration_ms,
              !.retry_count = r.retry_count,
              !.error_count = IF r.success THEN @ ELSE @ + 1]

\* The error list after complete_step: a record is pushed for a failure
\* that carries a message.
ErrorsAfter(errors, r) ==
    IF ~r.success /\ r.error # ""
    THEN Append(errors, [step_id |-> r.step_id, message |-> r.error,
                         retryable |-> r.retry_count < 3])
    ELSE errors

\* The closure of complete_step.
complete_step(state, r) ==
    [state EXCEPT
         !.step_states[r.step_id] = CompletedStep(@, r),
         !.records_processed = IF r.success THEN @ + 1 ELSE @,
         !.records_failed = IF r.success THEN @ ELSE @ + 1,
         !.retry_count = IF r.success THEN @ ELSE @ + r.retry_count,
         !.errors = ErrorsAfter(@, r)]

CompleteStep ==
    /\ CanTrack /\ tstate.exists
    /\ \E r \in TrackedResults :
           /\ tstate' = complete_step(tstate, r)
           /\ Called("complete_step", r, 0)
    /\ UNCHANGED <<nextRunId, canResume, resumed>>
    /\ UNCHANGED notTrackerVars

\* A checkpoint that also counts a record.
create_checkpoint_Counting(state, size) ==
    [state EXCEPT !.data_size_processed = @ + size, !.checkpoint_count = @ + 1,
                  !.records_processed = @ + 1]

\* The closure of create_checkpoint; size is estimated_memory_usage().
create_checkpoint(state, size) ==
    [state EXCEPT !.data_size_processed = @ + size, !.checkpoint_count = @ + 1]

CreateCheckpoint ==
    /\ CanTrack /\ tstate.exists
    /\ \E size \in {0, 5} :
           /\ tstate' = create_checkpoint(tstate, size)
           /\ Called("create_checkpoint", NoTrackedResult, size)
    /\ UNCHANGED <<nextRunId, canResume, resumed>>
    /\ UNCHANGED notTrackerVars

\* complete_pipeline, and the stop command that pauses the pipeline.
SetStatus ==
    /\ CanTrack /\ tstate.exists
    /\ \E st \in {"Completed", "Failed", "Paused"} :
           /\ tstate' = [tstate EXCEPT !.status = st]
           /\ Called(IF st = "Paused" THEN "pause" ELSE "complete_pipeline",
                     NoTrackedResult, 0)
    /\ UNCHANGED <<nextRunId, canResume, resumed>>
    /\ UNCHANGED notTrackerVars

\* A resume that starts a run of its own.
resume_FreshRun(state) ==
    IF state.exists /\ state.status \in {"Running", "Paused"}
    THEN [present |-> TRUE, run_id |-> state.run_id + 1] ELSE NoTracker

\* PipelineTracker::resume on the state load_state returned.
resume(state) ==
    IF state.exists /\ state.status \in {"Running", "Paused"}
    THEN [present |-> TRUE, run_id |-> state.run_id] ELSE NoTracker

\* PipelineTracker::can_resume
can_resume(state) == state.exists /\ state.status \in {"Running", "Paused"}

\* can_resume and resume are called on the persisted state.
ResumeCall ==
    /\ canResume' = can_resume(tstate)
    /\ resumed' = resume(tstate)
    /\ lastCall' = [op |-> "resume", before |-> tstate, result |-> NoTrackedResult,
                    size |-> 0]
    /\ lastCall.op # "resume"
    /\ UNCHANGED <<tstate, nextRunId, trackerOps>>
    /\ UNCHANGED notTrackerVars

NextTracker ==
    \/ TrackerNew
    \/ InitializePipeline
    \/ StartStep
    \/ CompleteStep
    \/ CreateCheckpoint
    \/ SetStatus
    \/ ResumeCall

SpecTracker == Init /\ [][NextTracker]_vars

\* C25: can_resume is true iff a state is persisted and its status is
\* Running or Paused; resume returns a tracker exactly then, and the
\* tracker carries the run_id of the persisted state.
C25_Resume ==
    lastCall.op = "resume" =>
        /\ canResume = (tstate.exists /\ tstate.status \in {"Running", "Paused"})
        /\ resumed.present = canResume
        /\ resumed.present => resumed.run_id = tstate.run_id

\* C25's case: a second run was started and paused, and resume returned a
\* tracker for it.
C25_Witness ==
    /\ lastCall.op = "resume"
    /\ tstate.status = "Paused" /\ tstate.run_id = 2
    /\ resumed.present

\* C26: complete_step(result) for a started step moves it from Running to
\* Completed on success and to Failed with the error otherwise, copies
\* duration_ms and retry_count into the step state; on success
\* records_processed grows by one and the errors stay, on failure
\* records_failed grows by one and exactly one ErrorRecord is appended,
\* retryable iff retry_count < 3.
C26_CompleteStep ==
    LET r == lastCall.result
        before == lastCall.before
    IN  (lastCall.op = "complete_step"
            /\ before.step_states[r.step_id].status = "Running") =>
            /\ tstate.step_states[r.step_id].status =
                   (IF r.success THEN "Completed" ELSE "Failed")
            /\ (~r.success /\ r.error # "") =>
                   tstate.step_states[r.step_id].error = r.error
            /\ tstate.step_states[r.step_id].processing_time_ms = r.duration_ms
            /\ tstate.step_states[r.step_id].retry_count = r.retry_count
            /\ r.success =>
                   /\ tstate.records_processed = before.records_processed + 1
                   /\ tstate.records_failed = before.records_failed
                   /\ tstate.errors = before.errors
            /\ ~r.success =>
                   /\ tstate.records_failed = before.records_failed + 1
                   /\ tstate.records_processed = before.records_processed
                   /\ Len(tstate.errors) = Len(before.errors) + 1
                   /\ SubSeq(tstate.errors, 1, Len(before.errors)) = before.errors
                   /\ tstate.errors[Len(tstate.errors)].retryable = (r.retry_count < 3)

\* C27: create_checkpoint adds one to checkpoint_count and the envelope's
\* estimated size to data_size_processed, and leaves the pipeline status,
\* current_step, every step state, records_processed, records_failed and
\* the errors as they were.
C27_CheckpointFrame ==
    lastCall.op = "create_checkpoint" =>
        /\ tstate.checkpoint_count = lastCall.before.checkpoint_count + 1
        /\ tstate.data_size_processed = lastCall.before.data_size_processed + lastCall.size
        /\ tstate.status = lastCall.before.status
        /\ tstate.current_step = lastCall.before.current_step
        /\ tstate.step_states = lastCall.before.step_states
        /\ tstate.records_processed = lastCall.before.records_processed
        /\ tstate.records_failed = lastCall.before.records_failed
        /\ tstate.errors = lastCall.before.errors

\* C27's case: a checkpoint of a non-empty envelope was created after a
\* step had been started and a record counted.
C27_Witness ==
    /\ lastCall.op = "create_checkpoint"
    /\ lastCall.size > 0
    /\ tstate.checkpoint_count = 1
    /\ tstate.records_processed + tstate.records_failed > 0

\* C28: in every state the tracker persisted, a step whose status is
\* Completed has a non-zero processing_time_ms or a non-zero
\* records_processed, whatever StepResult complete_step was given.
C28_CompletedHasMetrics ==
    \A i \in StepIds :
        tstate.step_states[i].status = "Completed" =>
            \/ tstate.step_states[i].processing_time_ms # 0
            \/ tstate.step_states[i].records_processed # 0

(***************************************************************************)
(* The two realizations of StateBackend side by side: the same calls, by   *)
(* the same workers at the same times, are made on a FileBackend and on a  *)
(* MemoryBackend, one call after the other (no call starts while another   *)
(* is inside the backend).                                                 *)
(***************************************************************************)
MaxPairOps == 3

\* FileBackend::acquire_lock run to its return with no other call inside:
\* the lock file is opened with truncate, the OS lock is free, the caller's
\* record (expires_at = start + T) is written and Ok is returned at once.
file_acquire_lock(l, w, T, t) ==
    [result |-> Ok, after |-> LockInfo(w, t + T), at |-> t]

\* MemoryBackend::acquire_lock run to its return: no record or an expired
\* one is replaced at once; a valid record makes the loop sleep until the
\* record has expired (granted then) or the timeout has elapsed.
memory_acquire_lock(l, w, T, t) ==
    IF ~(l.kind = "record" /\ ~(t > l.expires_at))
    THEN [result |-> Ok, after |-> LockInfo(w, t + T), at |-> t]
    ELSE IF t + T > l.expires_at
         THEN [result |-> Ok, after |-> LockInfo(w, l.expires_at + 1 + T),
               at |-> l.expires_at + 1]
         ELSE [result |-> LockTimeout(T), after |-> l, at |-> t + T]

\* What is_locked answers: Ok with the holder, or Ok with none (unlocked).
Holder(r) == [Ok EXCEPT !.worker_id = r.info.worker_id]

CanPair == pairOps < MaxPairOps
Outcomes(op, w, f, m) ==
    /\ pairOps' = pairOps + 1
    /\ outcomes' = [op |-> op, worker_id |-> w, file |-> f, memory |-> m]

\* Time passes between two calls.
PairTick ==
    /\ pairNow < MaxTime
    /\ pairNow' = pairNow + 1
    /\ UNCHANGED <<fileLocks, memoryLocks, pairOps, outcomes>>
    /\ UNCHANGED notPairVars

\* acquire_lock(p, w, T) on both backends; the next call is made once both
\* have returned.
PairAcquireLock(w, T) ==
    /\ CanPair
    /\ pairNow + T <= MaxTime
    /\ LET f == file_acquire_lock(fileLocks, w, T, pairNow)
           m == memory_acquire_lock(memoryLocks, w, T, pairNow) IN
       /\ fileLocks' = f.after
       /\ memoryLocks' = m.after
       /\ pairNow' = m.at
       /\ Outcomes("acquire_lock", w, f.result, m.result)
    /\ UNCHANGED notPairVars

\* release_lock(p, w) on both backends.
PairReleaseLock(w) ==
    /\ CanPair
    /\ LET f == FileReleaseLock(fileLocks, w, pairNow)
           m == MemoryReleaseLock(memoryLocks, w, pairNow) IN
       /\ fileLocks' = f.after
       /\ memoryLocks' = m.after
       /\ Outcomes("release_lock", w, f.result, m.result)
    /\ UNCHANGED pairNow
    /\ UNCHANGED notPairVars

\* is_locked(p) on both backends.
PairIsLocked(w) ==
    /\ CanPair
    /\ LET f == FileIsLocked(fileLocks, pairNow)
           m == MemoryIsLocked(memoryLocks, pairNow) IN
       /\ fileLocks' = f.after
       /\ memoryLocks' = m.after
       /\ Outcomes("is_locked", w, Holder(f), Holder(m))
    /\ UNCHANGED pairNow
    /\ UNCHANGED notPairVars

\* force_release_lock(p) and delete_state(p) on both backends: the record
\* goes, whoever holds it.
PairRemoveLock(w, op) ==
    /\ CanPair
    /\ fileLocks' = NoLock
    /\ memoryLocks' = NoLock
    /\ Outcomes(op, w, Ok, Ok)
    /\ UNCHANGED pairNow
    /\ UNCHANGED notPairVars

NextPair ==
    \/ PairTick
    \/ \E w \in Workers, T \in 0..MaxTimeout : PairAcquireLock(w, T)
    \/ \E w \in Workers : PairReleaseLock(w)
    \/ \E w \in Workers : PairIsLocked(w)
    \/ \E w \in Workers, op \in {"force_release_lock", "delete_state"} : PairRemoveLock(w, op)

SpecPair == Init /\ [][NextPair]_vars

\* C29: the memory backend mirrors the file backend for locking: whatever
\* acquire_lock, release_lock, is_locked, force_release_lock and
\* delete_state calls the workers made, at the same times, the last call
\* returned the same outcome on both backends (success, LockTimeout,
\* LockAlreadyHeld with the same holder, the same holder or unlocked).
C29_BackendsAgree == outcomes.file = outcomes.memory

(***************************************************************************)
(* The Batch stage (oxis/batch/oxi.rs) on a JSON array.  The strategies    *)
(* that read the clock are left out.                                       *)
(***************************************************************************)
MaxBatchItems == 4
MaxBatchSize == 3

\* The items of the arrays: JSON numbers.
ItemValues == {1, 2}
BatchInputs == UNION {[1..n -> ItemValues] : n \in 0..MaxBatchItems}
BatchStrategies == {"Size", "Memory", "SizeOrMemory"}

\* Batch::estimate_json_memory of a number.
estimate_json_memory(item) == 8

\* A flush that waits for one item more than max_count.
should_flush_Late(strategy, current_count, max_count, current_memory, max_memory) ==
    CASE strategy = "Size" -> current_count > max_count
      [] strategy = "Memory" -> current_memory >= max_memory
      [] OTHER -> current_count > max_count \/ current_memory >= max_memory

\* Batch::should_flush
should_flush(strategy, current_count, max_count, current_memory, max_memory) ==
    CASE strategy = "Size" -> current_count >= max_count
      [] strategy = "Memory" -> current_memory >= max_memory
      [] OTHER -> current_count >= max_count \/ current_memory >= max_memory

\* The loop of Batch::create_batches from item i on.
RECURSIVE BatchLoop(_, _, _, _, _, _)
BatchLoop(items, i, config, done, current_batch, current_memory_estimate) ==
    IF i > Len(items)
    THEN IF current_batch # <<>> THEN Append(done, current_batch) ELSE done
    ELSE LET item_memory == estimate_json_memory(items[i])
             flush == /\ should_flush(config.strategy, Len(current_batch),
                                      config.batch_size,
                                      current_memory_estimate + item_memory,
                                      config.max_memory_mb * 1024 * 1024)
                      /\ current_batch # <<>>
         IN  IF flush
             THEN BatchLoop(items, i + 1, config, Append(done, current_batch),
                            <<items[i]>>, item_memory)
             ELSE BatchLoop(items, i + 1, config, done,
                            Append(current_batch, items[i]),
                            current_memory_estimate + item_memory)

\* Batch::create_batches
create_batches(items, config) == BatchLoop(items, 1, config, <<>>, <<>>, 0)

\* A step of the declaration configures the stage, and the envelope of the
\* step before it holds a JSON array.
BatchInput ==
    /\ batchPc = "new"
    /\ \E items \in BatchInputs, B \in 1..MaxBatchSize, s \in BatchStrategies :
           /\ batchItems' = items
           /\ batchConfig' = [DefaultBatchConfig EXCEPT !.batch_size = B, !.strategy = s]
    /\ batchPc' = "ready"
    /\ UNCHANGED batches
    /\ UNCHANGED notBatchVars

\* Batch::process on the array: process_json hands it to create_batches and
\* returns the array of the batches.
BatchProcess ==
    /\ batchPc = "ready"
    /\ batches' = create_batches(batchItems, batchConfig)
    /\ batchPc' = "done"
    /\ UNCHANGED <<batchItems, batchConfig>>
    /\ UNCHANGED notBatchVars

NextBatch ==
    \/ BatchInput
    \/ BatchProcess

SpecBatch == Init /\ [][NextBatch]_vars

\* The concatenation of the batches, in order.
RECURSIVE Flatten(_)
Flatten(bs) == IF bs = <<>> THEN <<>> ELSE Head(bs) \o Flatten(Tail(bs))

\* The smallest integer that is at least n / b.
Ceil(n, b) == (n + b - 1) \div b

ProcessMillis == {0, 250, 500}

\* The declared steps: retry_attempts, whether to_oxi_config resolves every
\* value of the configuration, whether the name is one of the match arms.
OnceSteps == [retry_attempts : 0..MaxRetry, resolves : BOOLEAN, known : BOOLEAN]

\* tokio::time::sleep(Duration::from_millis(1000 * (attempt + 1)))
RetrySleepMillis(n) == 1000 * (n + 1)

\* PipelineStep::execute_once: to_oxi_config(resolver)? comes first, then the
\* match on the name, whose arm invokes the stage's process; ok is what
\* process answers and d how long it ran when it is invoked.
execute_once(step, made, ok, d) ==
    IF ~step.resolves
    THEN [ok |-> FALSE, error |-> "ConfigError", elapsed |-> 0,
          calls |-> [made EXCEPT !.to_oxi_config = @ + 1]]
    ELSE IF ~step.known
    THEN [ok |-> FALSE, error |-> "Unknown Oxi", elapsed |-> 0,
          calls |-> [made EXCEPT !.to_oxi_config = @ + 1, !.lookup = @ + 1]]
    ELSE [ok |-> ok, error |-> IF ok THEN "" ELSE "process", elapsed |-> d,
          calls |-> [made EXCEPT !.to_oxi_config = @ + 1, !.lookup = @ + 1,
                                  !.process = @ + 1]]

\* The outcomes one attempt can have.
Attempts(step, made) ==
    {execute_once(step, made, ok, d) : ok \in BOOLEAN, d \in ProcessMillis}

\* Pipeline::load_from_file: the step is declared.
DeclareStep ==
    /\ oncePc = "new"
    /\ \E step \in OnceSteps : onceStep' = step
    /\ oncePc' = "declared"
    /\ UNCHANGED <<onceAttempt, instants, onceCalls, onceResult>>
    /\ UNCHANGED notOnceVars

\* execute_with_retries is entered: start_time is taken once, before the loop.
EnterStep ==
    /\ oncePc = "declared"
    /\ oncePc' = "attempt"
    /\ onceAttempt' = 0
    /\ instants' = [instants EXCEPT !.start_time = instants.now,
                                    !.attempt_start = instants.now]
    /\ UNCHANGED <<onceStep, onceCalls, onceResult>>
    /\ UNCHANGED notOnceVars

\* execute_once returns Ok(data): the StepResult is returned with
\* start_time.elapsed() as its duration.
OnceSucceeds ==
    /\ oncePc = "attempt"
    /\ \E a \in Attempts(onceStep, onceCalls) :
           /\ a.ok
           /\ onceCalls' = a.calls
           /\ instants' = [instants EXCEPT !.now = @ + a.elapsed]
           /\ onceResult' = [returned |-> TRUE, success |-> TRUE, error |-> "",
                             retry_count |-> onceAttempt,
                             duration_ms |-> instants.now + a.elapsed - instants.start_time]
    /\ oncePc' = "returned"
    /\ UNCHANGED <<onceStep, onceAttempt>>
    /\ UNCHANGED notOnceVars

\* execute_once returns Err and attempt < retry_attempts: the loop sleeps
\* and starts the next attempt.
OnceFailsRetry ==
    /\ oncePc = "attempt"
    /\ onceAttempt < onceStep.retry_attempts
    /\ \E a \in Attempts(onceStep, onceCalls) :
           /\ ~a.ok
           /\ onceCalls' = a.calls
           /\ LET t == instants.now + a.elapsed + RetrySleepMillis(onceAttempt) IN
              instants' = [instants EXCEPT !.now = t, !.attempt_start = t]
    /\ onceAttempt' = onceAttempt + 1
    /\ UNCHANGED <<onceStep, oncePc, onceResult>>
    /\ UNCHANGED notOnceVars

\* execute_once returns Err on the last attempt: the failed StepResult is
\* returned with start_time.elapsed() as its duration.
OnceFailsReturn ==
    /\ oncePc = "attempt"
    /\ ~(onceAttempt < onceStep.retry_attempts)
    /\ \E a \in Attempts(onceStep, onceCalls) :
           /\ ~a.ok
           /\ onceCalls' = a.calls
           /\ instants' = [instants EXCEPT !.now = @ + a.elapsed]
           /\ onceResult' = [returned |-> TRUE, success |-> FALSE, error |-> a.error,
                             retry_count |-> onceAttempt,
                             duration_ms |-> instants.now + a.elapsed - instants.start_time]
    /\ oncePc' = "returned"
    /\ UNCHANGED <<onceStep, onceAttempt>>
    /\ UNCHANGED notOnceVars

NextOnce ==
    \/ DeclareStep
    \/ EnterStep
    \/ OnceSucceeds
    \/ OnceFailsRetry
    \/ OnceFailsReturn

SpecOnce == Init /\ [][NextOnce]_vars

\* C31: configuration resolution and the lookup of the stage by name happen
\* once, before the retry loop: a step whose configuration does not resolve
\* or whose name is unknown fails without process being invoked and without
\* being attempted again, whatever its retry_attempts.
C31_ResolveOnce ==
    (onceResult.returned /\ (~onceStep.resolves \/ ~onceStep.known)) =>
        /\ ~onceResult.success
        /\ onceCalls.process = 0
        /\ onceCalls.to_oxi_config = 1
        /\ onceCalls.lookup <= 1
        /\ onceResult.retry_count = 0

\* C33: the duration_ms of the StepResult of a step that needed several
\* attempts is measured from the start of the attempt that produced the
\* result: the earlier attempts and the sleeps between them are not in it.
C33_DurationOfLastAttempt ==
    onceResult.returned =>
        onceResult.duration_ms = instants.now - instants.attempt_start

\* The input exceeds a resource limit of the stage, as process tests it.
ExceedsLimit(l, input) ==
    \/ l.max_memory_mb.set /\ input.large
    \/ l.max_batch_size.set /\ is_batch(input) /\ batch_size(input) > l.max_batch_size.n

\* C32: the checks before process_data run in the order supported input
\* type, memory limit, batch size, validate_input: for an input of a
\* supported type that exceeds the memory or the batch-size limit and that
\* validate_input rejects, the resource-limit failure is the one returned
\* (validate_input is not reached).
C32_LimitsBeforeValidation ==
    (oxiPc = "returned" /\ TypeSupported(limits, oxiInput)
        /\ ExceedsLimit(limits, oxiInput) /\ ~oxiInput.valid) =>
            oxiResult \in {"MemoryLimitExceeded", "BatchSizeExceeded"}

(***************************************************************************)
(* The cache of one FileBackend (cache_enabled) under load_state and       *)
(* save_state on several pipelines.  Calls may read the same instant from  *)
(* Utc::now().                                                             *)
(***************************************************************************)
MaxLruTime == 2
MaxLruOps == 4

\* The ids that have an entry in the cache.
CachedIds(c) == {i \in PipelineIds : c[i].present}

\* FileBackend::evict_least_recently_used: the loop keeps an entry whose
\* last_accessed is earlier than the oldest seen so far, starting from
\* Utc::now(); the HashMap is iterated in any order, so any of the entries
\* with the earliest last_accessed may be the one removed, and none is
\* removed when no entry is earlier than now.
evict_least_recently_used(c, t) ==
    LET older == {i \in CachedIds(c) : c[i].last_accessed < t}
        oldest == {i \in older : \A j \in older : c[i].last_accessed <= c[j].last_accessed}
    IN  IF older = {} THEN {c}
        ELSE {[c EXCEPT ![i] = NotCached] : i \in oldest}

\* FileBackend::store_in_cache: a cache with cache_max_size entries or more
\* has one evicted, then the entry is inserted.
store_in_cache(c, id, t) ==
    LET after == IF Cardinality(CachedIds(c)) >= MaxCacheSize
                 THEN evict_least_recently_used(c, t)
                 ELSE {c}
    IN  {[a EXCEPT ![id] = Cached(t)] : a \in after}

\* Time passes between two calls.
LruTick ==
    /\ lruNow < MaxLruTime
    /\ lruNow' = lruNow + 1
    /\ UNCHANGED <<lru, files, lruOps>>
    /\ UNCHANGED notLruVars

\* FileBackend::save_state: the state file is written, then store_in_cache.
LruSaveState(id) ==
    /\ lruOps < MaxLruOps
    /\ lruOps' = lruOps + 1
    /\ files' = files \cup {id}
    /\ lru' \in store_in_cache(lru, id, lruNow)
    /\ UNCHANGED lruNow
    /\ UNCHANGED notLruVars

\* FileBackend::load_state: a hit in get_from_cache refreshes last_accessed;
\* on a miss the file is read and, when it exists, store_in_cache.
LruLoadState(id) ==
    /\ lruOps < MaxLruOps
    /\ lruOps' = lruOps + 1
    /\ lru' \in IF lru[id].present THEN {[lru EXCEPT ![id].last_accessed = lruNow]}
                ELSE IF id \in files THEN store_in_cache(lru, id, lruNow)
                ELSE {lru}
    /\ UNCHANGED <<files, lruNow>>
    /\ UNCHANGED notLruVars

NextLru ==
    \/ LruTick
    \/ \E id \in PipelineIds : LruSaveState(id)
    \/ \E id \in PipelineIds : LruLoadState(id)

SpecLru == Init /\ [][NextLru]_vars

\* C34: the file backend's cache is bounded: after any sequence of
\* load_state and save_state calls on any number of pipelines it holds at
\* most cache_max_size entries (an insertion into a full cache evicts the
\* entry with the oldest last-access time).
C34_CacheBounded == Cardinality(CachedIds(lru)) <= MaxCacheSize

(***************************************************************************)
(* FileBackend::verify_integrity over the states directory.                *)
(***************************************************************************)
MaxFiles == 3

\* What an entry of the states directory can be: a state file that parses
\* and validates, one that parses and fails PipelineState::validate, one
\* that does not parse, an empty one, an entry that is gone when it is
\* validated, and an entry whose name has no dot.
FileKinds == {"valid", "invalid", "unparsable", "empty", "gone", "nodot"}

\* FileBackend::validate_state on an entry: Err(PipelineNotFound) for a
\* missing file, else corruption_detected and checksum_match.
validate_state(kind) ==
    CASE kind = "gone" -> [ok |-> FALSE, corruption_detected |-> FALSE, checksum_match |-> FALSE]
      [] kind = "valid" -> [ok |-> TRUE, corruption_detected |-> FALSE, checksum_match |-> TRUE]
      [] kind = "invalid" -> [ok |-> TRUE, corruption_detected |-> FALSE, checksum_match |-> FALSE]
      [] OTHER -> [ok |-> TRUE, corruption_detected |-> TRUE, checksum_match |-> FALSE]

\* The loop of verify_integrity over the entries from i on.
RECURSIVE IntegrityLoop(_, _, _)
IntegrityLoop(dir, i, r) ==
    IF i > Len(dir) THEN r
    ELSE LET counted == [r EXCEPT !.total_files_checked = @ + 1]
             v == validate_state(dir[i])
         IN  IF dir[i] = "nodot" THEN IntegrityLoop(dir, i + 1, counted)
             ELSE IF ~v.ok
             THEN IntegrityLoop(dir, i + 1, [counted EXCEPT !.missing_files = @ + 1])
             ELSE IntegrityLoop(dir, i + 1,
                      [counted EXCEPT
                          !.corrupted_files = IF v.corruption_detected THEN @ + 1 ELSE @,
                          !.checksum_mismatches = IF ~v.checksum_match THEN @ + 1 ELSE @])

\* FileBackend::verify_integrity
verify_integrity(dir) == IntegrityLoop(dir, 1, [NoReport EXCEPT !.returned = TRUE])

\* let total_issues = ...
total_issues(r) ==
    r.corrupted_files + r.missing_files + r.permission_errors + r.checksum_mismatches

\* A file appears in the states directory.
AddFile(kind) ==
    /\ ~report.returned
    /\ Len(statesDir) < MaxFiles
    /\ statesDir' = Append(statesDir, kind)
    /\ UNCHANGED report
    /\ UNCHANGED notIntegrityVars

\* verify_integrity is called.
VerifyIntegrity ==
    /\ ~report.returned
    /\ report' = verify_integrity(statesDir)
    /\ UNCHANGED statesDir
    /\ UNCHANGED notIntegrityVars

NextIntegrity ==
    \/ \E kind \in FileKinds : AddFile(kind)
    \/ VerifyIntegrity

SpecIntegrity == Init /\ [][NextIntegrity]_vars

\* C35: the overall_health 1 - issues / total_files_checked of
\* verify_integrity lies between 0.0 and 1.0: the issues tallied over the
\* corrupted, missing, permission-denied and checksum-mismatch buckets
\* never exceed the number of files checked.
C35_HealthInRange ==
    report.returned => total_issues(report) <= report.total_files_checked

\* C36: for every run, steps_executed + steps_failed + steps_skipped is the
\* number of declared steps, and step_results holds exactly one entry per
\* attempted step (steps_executed + steps_failed entries), in declared
\* order, and none for a skipped step.
C36_StepAccounting ==
    pipeResult.returned =>
        /\ pipeResult.steps_executed + pipeResult.steps_failed + pipeResult.steps_skipped
               = Len(steps)
        /\ Len(pipeResult.step_results)
               = pipeResult.steps_executed + pipeResult.steps_failed
        /\ \A j \in DOMAIN pipeResult.step_results :
               pipeResult.step_results[j].step_id = j - 1
        /\ pipeResult.steps_executed =
               Cardinality({j \in DOMAIN pipeResult.step_results :
                               pipeResult.step_results[j].success})

\* C36's case: a run of three declared steps in which one step was
\* executed, one failed and stopped the run, and one was skipped.
C36_Witness ==
    /\ pipeResult.returned
    /\ Len(steps) = 3
    /\ pipeResult.steps_executed = 1
    /\ pipeResult.steps_failed = 1
    /\ pipeResult.steps_skipped = 1
    /\ Len(pipeResult.step_results) = 2

(***************************************************************************)
(* delete_state against the writers of the persisted state.                *)
(***************************************************************************)
\* The writers of NextUpdate and the callers of delete_state.
NextDelete ==
    \/ \E p \in Workers : Initialize(p)
    \/ \E p \in Workers : CallUpdateStateLocked(p)
    \/ \E p \in Workers : MemoryAcquireProbe(p)
    \/ \E p \in Workers : FileAcquireOpen(p)
    \/ \E p \in Workers : FileAcquireWrite(p)
    \/ \E p \in Workers : FileAcquireClose(p)
    \/ \E p \in Workers : CallUpdateState(p)
    \/ \E p \in Workers : Load(p)
    \/ \E p \in Workers : Save(p)
    \/ \E p \in Workers : ReleaseTask(p)
    \/ StartHeartbeat
    \/ HeartbeatLoad
    \/ HeartbeatSave
    \/ StopHeartbeat
    \/ \E p \in Workers : DeleteState(p)

SpecDelete == Init /\ [][NextDelete]_vars

\* C37: deletion is not undone by concurrent writers: a pipeline that has
\* no persisted state (it was deleted, or never initialized) gets one only
\* when a run is explicitly initialized; no heartbeat task and no
\* update_state or update_state_locked in flight re-creates it by saving.
C37_DeletionStays ==
    [][(~states.exists /\ states'.exists) => \E p \in Workers : Initialize(p)]_vars

(***************************************************************************)
(* repair_state on a state that fails PipelineState::validate, on both     *)
(* backends.                                                               *)
(***************************************************************************)
\* Checks of PipelineState::validate a state can fail: an empty
\* pipeline_id, an empty run_id, version 0, last_heartbeat before
\* started_at, and a Completed step without processing metrics.
Defects == {"pipeline_id", "run_id", "version", "last_heartbeat", "step_metrics"}

\* What FileBackend::repair_state and MemoryBackend::repair_state fix.
FileFixes == {"pipeline_id", "run_id", "version", "last_heartbeat"}
MemoryFixes == {"pipeline_id", "run_id", "version"}

\* validate_state(...).valid: the file parses (the memory backend's state
\* always does) and PipelineState::validate finds nothing.
Valid(s) == s.exists /\ ~s.corrupt /\ s.defects = {}

\* FileBackend::repair_state: a valid state needs nothing; a corrupted file
\* is restored from the first backup list_backups returns, which is the
\* copy of the corrupted file made at the start, and that restore fails;
\* otherwise the listed fields are fixed and the state is saved, and
\* success is that some repair was made.
file_repair_state(s) ==
    IF Valid(s)
    THEN [state |-> s, success |-> TRUE, manual_intervention_required |-> FALSE]
    ELSE IF s.corrupt
    THEN [state |-> s, success |-> FALSE, manual_intervention_required |-> TRUE]
    ELSE [state |-> [s EXCEPT !.defects = @ \ FileFixes],
          success |-> s.defects \cap FileFixes # {},
          manual_intervention_required |-> FALSE]

\* MemoryBackend::repair_state
memory_repair_state(s) ==
    IF Valid(s)
    THEN [state |-> s, success |-> TRUE, manual_intervention_required |-> FALSE]
    ELSE [state |-> [s EXCEPT !.defects = @ \ MemoryFixes],
          success |-> s.defects \cap MemoryFixes # {},
          manual_intervention_required |-> FALSE]

\* save_state persists a state as it is given (it does not validate); a
\* state file may also be damaged on disk.
PersistState ==
    /\ ~persisted.exists
    /\ \E d \in SUBSET Defects, c \in BOOLEAN :
           /\ c => backend = "file"
           /\ persisted' = [exists |-> TRUE, corrupt |-> c, defects |-> d]
    /\ UNCHANGED repaired
    /\ UNCHANGED notHealVars

\* repair_state(pipeline_id) is called and returns Ok(RepairResult).
CallRepairState ==
    /\ persisted.exists
    /\ ~repaired.returned
    /\ LET r == IF backend = "file" THEN file_repair_state(persisted)
                ELSE memory_repair_state(persisted) IN
       /\ persisted' = r.state
       /\ repaired' = [returned |-> TRUE, success |-> r.success,
                       manual_intervention_required |-> r.manual_intervention_required]
    /\ UNCHANGED notHealVars

NextHeal ==
    \/ PersistState
    \/ CallRepairState

SpecHeal == Init /\ [][NextHeal]_vars

\* C39: whenever repair_state returns success = true, on the file or the
\* memory backend, the repaired state is valid: a validate_state that
\* follows at once reports valid = true with no validation errors.
C39_RepairedIsValid ==
    (repaired.returned /\ repaired.success) => Valid(persisted)

(***************************************************************************)
(* One pipeline's state file, its cache entry and its backups in one       *)
(* FileBackend.                                                            *)
(***************************************************************************)
Contents == 1..MaxContents

\* FileBackend::load_state: answered from the cache when the pipeline has
\* an entry; otherwise PipelineNotFound without a file, else the file's
\* state, which is stored in the cache.
ViewLoadState ==
    /\ LET r == IF cacheEntry # 0 THEN cacheEntry ELSE stateFile.content IN
       /\ lastLoad' = [called |-> TRUE, result |-> r, after |-> lastChange,
                       file |-> stateFile.content]
       /\ cacheEntry' = r
    /\ UNCHANGED <<stateFile, backupFiles, lastChange>>
    /\ UNCHANGED notViewVars

\* FileBackend::save_state: writes the file and stores the state in the
\* cache.
ViewSaveState(c) ==
    /\ stateFile' = [content |-> c, stale |-> FALSE]
    /\ cacheEntry' = c
    /\ lastChange' = "save_state"
    /\ UNCHANGED <<backupFiles, lastLoad>>
    /\ UNCHANGED notViewVars

\* FileBackend::delete_state: removes the file and invalidates the cache
\* entry.
ViewDeleteState ==
    /\ stateFile.content # 0
    /\ stateFile' = NoFile
    /\ cacheEntry' = 0
    /\ lastChange' = "delete_state"
    /\ UNCHANGED <<backupFiles, lastLoad>>
    /\ UNCHANGED notViewVars

\* FileBackend::backup_state: copies the state file under backups/.
ViewBackupState ==
    /\ stateFile.content # 0
    /\ backupFiles' = backupFiles \cup {stateFile.content}
    /\ UNCHANGED <<stateFile, cacheEntry, lastChange, lastLoad>>
    /\ UNCHANGED notViewVars

\* FileBackend::restore_state(p, b) returning Ok: the backup exists and
\* parses, the current file is backed up (best effort), and the backup is
\* copied over the state file.  The cache is not touched.
ViewRestoreState(b) ==
    /\ b \in backupFiles
    /\ backupFiles' = IF stateFile.content # 0
                      THEN backupFiles \cup {stateFile.content}
                      ELSE backupFiles
    /\ stateFile' = [content |-> b, stale |-> FALSE]
    /\ lastChange' = "restore_state"
    /\ UNCHANGED <<cacheEntry, lastLoad>>
    /\ UNCHANGED notViewVars

\* Time passes until the file's modification time is before
\* now - max_age_hours.
ViewAge ==
    /\ stateFile.content # 0
    /\ ~stateFile.stale
    /\ stateFile' = [stateFile EXCEPT !.stale = TRUE]
    /\ UNCHANGED <<cacheEntry, backupFiles, lastChange, lastLoad>>
    /\ UNCHANGED notViewVars

\* FileBackend::cleanup(max_age_hours): removes the state file when it is
\* stale.  The cache is not touched.
ViewCleanup ==
    /\ stateFile.content # 0
    /\ IF stateFile.stale
       THEN /\ stateFile' = NoFile
            /\ lastChange' = "cleanup"
       ELSE UNCHANGED <<stateFile, lastChange>>
    /\ UNCHANGED <<cacheEntry, backupFiles, lastLoad>>
    /\ UNCHANGED notViewVars

NextView ==
    \/ ViewLoadState
    \/ \E c \in Contents : ViewSaveState(c)
    \/ ViewDeleteState
    \/ ViewBackupState
    \/ \E b \in Contents : ViewRestoreState(b)
    \/ ViewAge
    \/ ViewCleanup

SpecView == Init /\ [][NextView]_vars

\* C38: a load_state that follows a successful restore_state(p, b) returns
\* the state stored in backup b, and a load_state that follows a cleanup
\* that removed p's stale state file returns PipelineNotFound; in both
\* cases the result is what the state file holds, not a cached state.
C38_ChangesVisible ==
    (lastLoad.called /\ lastLoad.after \in {"restore_state", "cleanup"})
        => lastLoad.result = lastLoad.file

(***************************************************************************)
(* Batch::process_binary: the chunking loop of create_binary_batches,      *)
(* one iteration per step.                                                 *)
(***************************************************************************)
\* Chunks the model follows the loop for.
MaxChunks == 4
\* Largest batch_size and max_memory_mb of a configuration.
MaxBinaryBatchSize == 2
MaxMemoryMb == 1

\* Lengths of the binary input, in bytes.
BinaryLens == {0, 1, 2, 1024, 1500, 2048}

AllStrategies == {"Size", "Time", "SizeOrTime", "Memory", "SizeOrMemory", "Any"}

BinaryInputs ==
    [len : BinaryLens, strategy : AllStrategies,
     batch_size : 0..MaxBinaryBatchSize, max_memory_mb : 0..MaxMemoryMb,
     flush_interval : BOOLEAN]

Min(a, b) == IF a <= b THEN a ELSE b
Max(a, b) == IF a >= b THEN a ELSE b

\* process_binary: chunk_size = batch_size * 1024 and
\* max_memory_bytes = max_memory_mb * 1024 * 1024.
chunk_size(in) == in.batch_size * 1024
max_memory_bytes(in) == in.max_memory_mb * 1024 * 1024

\* chunk_end of one iteration of create_binary_batches; flush is whether
\* last_flush.elapsed() >= interval.
chunk_end(in, pos, flush) ==
    LET remaining == in.len - pos
        bySize == pos + Min(chunk_size(in), remaining)
        byMemory == IF in.strategy \in {"Memory", "SizeOrMemory", "Any"}
                    THEN pos + Min(max_memory_bytes(in), remaining)
                    ELSE bySize
    IN IF in.flush_interval /\ in.strategy \in {"Time", "SizeOrTime", "Any"} /\ flush
       THEN pos + Min(Max(chunk_size(in) \div 2, 1), remaining)
       ELSE byMemory

\* Batch::process with Data::Binary: process_binary enters
\* create_binary_batches.
BinaryProcess ==
    /\ binPc = "idle"
    /\ \E in \in BinaryInputs :
           /\ binInput' = in
           /\ binPc' = "loop"
    /\ current_pos' = 0
    /\ chunks' = <<>>
    /\ UNCHANGED notBinaryVars

\* One iteration of `while current_pos < data.len()`.
BinaryIterate ==
    /\ binPc = "loop"
    /\ current_pos < binInput.len
    /\ Len(chunks) < MaxChunks
    /\ \E flush \in BOOLEAN :
           LET e == chunk_end(binInput, current_pos, flush) IN
           /\ chunks' = Append(chunks, [from |-> current_pos, to |-> e])
           /\ current_pos' = e
    /\ UNCHANGED <<binPc, binInput>>
    /\ UNCHANGED notBinaryVars

\* The loop condition fails and create_binary_batches returns Ok(batches).
BinaryReturn ==
    /\ binPc = "loop"
    /\ current_pos >= binInput.len
    /\ binPc' = "done"
    /\ UNCHANGED <<binInput, current_pos, chunks>>
    /\ UNCHANGED notBinaryVars

NextBinary ==
    \/ BinaryProcess
    \/ BinaryIterate
    \/ BinaryReturn

SpecBinary == Init /\ [][NextBinary]_vars

\* C40: for binary input the chunking loop advances its position on every
\* iteration, that is, each emitted chunk is non-empty, for every
\* batch_size >= 0 and max_memory_mb >= 0 under every strategy.
C40_ChunksNonEmpty ==
    \A i \in 1..Len(chunks) : chunks[i].to > chunks[i].from

====
